---- MODULE Spec2Model ----
(***************************************************************************)
(* A model of the server-status ("ping") client of kybes-bot:             *)
(*   src/src/utils/server/varint.rs   VarInt / VarLong codec              *)
(*   src/src/utils/server/string.rs   length-prefixed string codec        *)
(*   src/src/utils/server/ping.rs     the ping orchestrator               *)
(*                                                                         *)
(* TLC's integers are 32 bits wide, so a u32 / i64 / u64 machine word is   *)
(* a tuple of bits, least significant bit first; an i32 is an Int and is   *)
(* reinterpreted (`as u32`) into its two's-complement bits where the code  *)
(* does so.  A byte (u8) is an Int in 0..255.  A String is the sequence of *)
(* its chars (Unicode scalar values).                                      *)
(***************************************************************************)
EXTENDS Integers, Sequences, FiniteSets, Bags, TLC

VARIABLES
    \* ---- codec harness (one application of a codec function to an input)
    arg,        \* the input the function is applied to
    op,         \* the function applied last ("init" before any)
    buffer,     \* the Vec<u8> the write_* function produced
    ret,        \* what the read_* function returned
    \* ---- one ping call and its environment
    call,       \* the locals of ping(): program point, stream position, result
    env,        \* the build profile and the peer of this call
    \* ---- what the running call shares the process with
    parked,     \* the ping calls suspended at an await, each with its peer
    RESOLVER,   \* the process-wide Lazy<TokioAsyncResolver>
    \* ---- the slash commands that keep state (reminders.rs, alias.rs)
    disk,           \* the files of the working directory, by path
    SAVED_MESSAGES, \* the process-wide Lazy<RwLock<UserMessages>>
    tasks,          \* the command invocations and the reminder loop: their locals
    outbox          \* the direct messages the bot has sent (a bag)

vars == <<arg, op, buffer, ret, call, env, parked, RESOLVER,
          disk, SAVED_MESSAGES, tasks, outbox>>

(***************************************************************************)
(* Machine words                                                           *)
(***************************************************************************)
Pow2(k) == 2 ^ k

\* the w-bit word holding n, for 0 <= n < 2^31
Bits(n, w) == [i \in 1..w |-> IF i > 31 THEN 0 ELSE (n \div Pow2(i - 1)) % 2]

Zero(w) == [i \in 1..w |-> 0]

\* bitwise complement, or, logical shifts (bits shifted out are lost)
Not(b) == [i \in 1..Len(b) |-> 1 - b[i]]

Or(a, b) == [i \in 1..Len(a) |-> IF a[i] = 1 \/ b[i] = 1 THEN 1 ELSE 0]

Shl(b, k) == [i \in 1..Len(b) |-> IF i - k >= 1 THEN b[i - k] ELSE 0]

Shr(b, k) == [i \in 1..Len(b) |-> IF i + k <= Len(b) THEN b[i + k] ELSE 0]

\* the value of bits lo..hi of b as a natural number (hi - lo <= 30)
RECURSIVE Field(_, _, _)
Field(b, lo, hi) ==
    IF lo > hi THEN 0 ELSE b[lo] + 2 * Field(b, lo + 1, hi)

\* `v as u32` for an i32 v: its two's-complement bit pattern
I32ToBits(v) ==
    IF v >= 0 THEN Bits(v, 32)
    ELSE [i \in 1..32 |-> IF i = 32 THEN 1
                          ELSE Bits((v + 1073741824) + 1073741824, 32)[i]]

\* `b as i32` for a u32 b
BitsToI32(b) ==
    IF b[32] = 0 THEN Field(b, 1, 31)
    ELSE (Field(b, 1, 31) - 1073741824) - 1073741824

\* `v as i64` for an i32 v (sign extension), as the 64-bit pattern
I32ToI64(v) == [i \in 1..64 |-> IF i <= 32 THEN I32ToBits(v)[i] ELSE I32ToBits(v)[32]]

(***************************************************************************)
(* varint.rs                                                               *)
(***************************************************************************)
SEGMENT_BITS == 127
CONTINUE_BIT == 128

\* a test that lets a whole byte through (`value & !0xFF == 0`)
FitsByte(bits) == \A i \in 9..Len(bits) : bits[i] = 0

\* `value & !SEGMENT_BITS == 0` on a word
FitsSegment(bits) == \A i \in 8..Len(bits) : bits[i] = 0

\* the loop of write_var_int / write_var_long on the unsigned word `bits`
RECURSIVE WriteVarLoop(_, _)
WriteVarLoop(result, bits) ==
    IF FitsSegment(bits)
    THEN Append(result, Field(bits, 1, 8))
    ELSE WriteVarLoop(Append(result, Field(bits, 1, 7) + CONTINUE_BIT), Shr(bits, 7))

write_var_int(result, value) == WriteVarLoop(result, I32ToBits(value))

\* value is an i64, held as its 64-bit pattern (`value as u64` keeps the bits)
write_var_long(result, value) == WriteVarLoop(result, value)

\* The loop of read_var_int (an i32 accumulator, limit 32) and of
\* read_var_int_long (i64, limit 64) from the 0-based cursor `offset`.
\* `value` is the accumulator's bit pattern.  Returns the pattern, the
\* cursor after the call and whether the call panicked ("var_int is too
\* big": `position >= limit` after a byte with the continuation bit).
RECURSIVE ReadVarLoop(_, _, _, _, _)
ReadVarLoop(var_int, offset, value, position, limit) ==
    IF offset < Len(var_int)
    THEN LET current_byte == var_int[offset + 1]
             v2 == Or(value, Shl(Bits(current_byte % 128, Len(value)), position))
         IN  IF current_byte \div 128 = 0
             THEN [bits |-> v2, offset |-> offset + 1, panicked |-> FALSE]
             ELSE IF position + 7 >= limit
                  THEN [bits |-> v2, offset |-> offset + 1, panicked |-> TRUE]
                  ELSE ReadVarLoop(var_int, offset + 1, v2, position + 7, limit)
    ELSE [bits |-> value, offset |-> offset + 1, panicked |-> FALSE]

\* read_var_int with the accumulator's sign bit dropped on return
read_var_int_unsigned(var_int, offset) ==
    LET r == ReadVarLoop(var_int, offset, Zero(32), 0, 32)
    IN  [value |-> Field(r.bits, 1, 31), offset |-> r.offset, panicked |-> r.panicked]

\* read_var_int(var_int, Some(&mut offset)); a caller passing None passes 0
read_var_int(var_int, offset) ==
    LET r == ReadVarLoop(var_int, offset, Zero(32), 0, 32)
    IN  [value |-> BitsToI32(r.bits), offset |-> r.offset, panicked |-> r.panicked]

\* read_var_int_long with read_var_int's limit of 32 bits
read_var_int_long_limit32(var_int, offset) ==
    LET r == ReadVarLoop(var_int, offset, Zero(64), 0, 32)
    IN  [value |-> r.bits, offset |-> r.offset, panicked |-> r.panicked]

read_var_int_long(var_int, offset) ==
    LET r == ReadVarLoop(var_int, offset, Zero(64), 0, 64)
    IN  [value |-> r.bits, offset |-> r.offset, panicked |-> r.panicked]

(***************************************************************************)
(* Strings: str::as_bytes and String::from_utf8 (UTF-8, Unicode table 3-7) *)
(***************************************************************************)
\* the UTF-8 encoding of one char
Utf8Char(c) ==
    IF c < 128 THEN <<c>>
    ELSE IF c < 2048 THEN <<192 + (c \div 64), 128 + (c % 64)>>
    ELSE IF c < 65536
         THEN <<224 + (c \div 4096), 128 + ((c \div 64) % 64), 128 + (c % 64)>>
    ELSE <<240 + (c \div 262144), 128 + ((c \div 4096) % 64),
           128 + ((c \div 64) % 64), 128 + (c % 64)>>

\* the bytes of chars lo..hi of `string`, in order (split in halves so that a
\* long string does not nest deeply)
RECURSIVE Utf8Range(_, _, _)
Utf8Range(string, lo, hi) ==
    IF lo > hi THEN <<>>
    ELSE IF lo = hi THEN Utf8Char(string[lo])
    ELSE LET mid == (lo + hi) \div 2
         IN  Utf8Range(string, lo, mid) \o Utf8Range(string, mid + 1, hi)

as_bytes(string) == Utf8Range(string, 1, Len(string))

IsCont(b) == b >= 128 /\ b <= 191

\* the length of the sequence a lead byte starts; 0 for a byte that starts none
Utf8Width(b) ==
    IF b < 128 THEN 1
    ELSE IF b >= 194 /\ b <= 223 THEN 2
    ELSE IF b >= 224 /\ b <= 239 THEN 3
    ELSE IF b >= 240 /\ b <= 244 THEN 4
    ELSE 0

\* the range the second byte of a sequence is confined to (no overlong
\* forms, no surrogates, nothing above U+10FFFF)
SecondByteOk(lead, b) ==
    IF lead = 224 THEN b >= 160 /\ b <= 191
    ELSE IF lead = 237 THEN b >= 128 /\ b <= 159
    ELSE IF lead = 240 THEN b >= 144 /\ b <= 191
    ELSE IF lead = 244 THEN b >= 128 /\ b <= 143
    ELSE IsCont(b)

\* bytes is well-formed UTF-8: it starts with a lead byte, and every lead
\* byte is followed by exactly its continuation bytes
Utf8Valid(bytes) ==
    LET n == Len(bytes)
    IN  /\ n > 0 => ~IsCont(bytes[1])
        /\ \A i \in 1..n :
              ~IsCont(bytes[i]) =>
                  LET w == Utf8Width(bytes[i])
                  IN  /\ w > 0
                      /\ i + w - 1 <= n
                      /\ w > 1 => SecondByteOk(bytes[i], bytes[i + 1])
                      /\ \A j \in (i + 1)..(i + w - 1) : IsCont(bytes[j])
                      /\ i + w <= n => ~IsCont(bytes[i + w])

\* the char whose encoding starts at bytes[i]
Utf8Decode(bytes, i) ==
    LET w == Utf8Width(bytes[i])
    IN  IF w = 1 THEN bytes[i]
        ELSE IF w = 2 THEN (bytes[i] - 192) * 64 + (bytes[i + 1] - 128)
        ELSE IF w = 3 THEN (bytes[i] - 224) * 4096 + (bytes[i + 1] - 128) * 64
                           + (bytes[i + 2] - 128)
        ELSE (bytes[i] - 240) * 262144 + (bytes[i + 1] - 128) * 4096
             + (bytes[i + 2] - 128) * 64 + (bytes[i + 3] - 128)

\* String::from_utf8(bytes): Ok(the decoded String) or Err
from_utf8(bytes) ==
    IF Utf8Valid(bytes)
    THEN LET IsLead(i) == ~IsCont(bytes[i])
             leads == SelectSeq([i \in 1..Len(bytes) |-> i], IsLead)
         IN  [ok |-> TRUE, string |-> [k \in 1..Len(leads) |-> Utf8Decode(bytes, leads[k])]]
    ELSE [ok |-> FALSE, string |-> <<>>]

(***************************************************************************)
(* string.rs                                                               *)
(***************************************************************************)
\* the ceiling write_string compares the UTF-16 length with
STRING_MAX_UTF16 == 32767

\* a length prefix that counts the UTF-8 bytes
Utf16LenAsByteCount(string) == Len(as_bytes(string))

\* string.chars().map(|c| if c > '\u{FFFF}' { 2 } else { 1 }).sum()
Utf16Len(string) ==
    Len(string) + Cardinality({i \in 1..Len(string) : string[i] > 65535})

\* write_string(buffer, string): the buffer afterwards, or the panic
\* "String is too long for the Minecraft protocol!"
write_string(buf, string) ==
    LET utf16_len == Utf16Len(string)
    IN  IF utf16_len > STRING_MAX_UTF16
        THEN [buffer |-> buf, panicked |-> TRUE]
        ELSE [buffer |-> write_var_int(buf, utf16_len) \o as_bytes(string),
              panicked |-> FALSE]

\* a read_string whose bounds test forgets the cursor
\* (`length > data.len()`): the slice past the end panics
read_string_ignoring_cursor(data, index) ==
    LET r == read_var_int(data, index)
        length == r.value
        idx == r.offset
        Err(kind) == [result |-> kind, string |-> <<>>, index |-> idx]
    IN  IF r.panicked THEN Err("panic")
        ELSE IF length < 0
        THEN IF idx + length >= 0 THEN Err("panic") ELSE Err("UnexpectedEof")
        ELSE IF length > Len(data) THEN Err("UnexpectedEof")
        ELSE IF length > Len(data) - idx THEN Err("panic")
        ELSE LET str_bytes == SubSeq(data, idx + 1, idx + length)
                 decoded == from_utf8(str_bytes)
             IN  IF decoded.ok
                 THEN [result |-> "Ok", string |-> decoded.string, index |-> idx + length]
                 ELSE [result |-> "InvalidData", string |-> <<>>, index |-> idx + length]

\* a read_string that decodes with String::from_utf8_lossy: ill-formed
\* bytes become U+FFFD and the call succeeds
read_string_lossy(data, index) ==
    LET r == read_var_int(data, index)
        length == r.value
        idx == r.offset
        Err(kind) == [result |-> kind, string |-> <<>>, index |-> idx]
    IN  IF r.panicked THEN Err("panic")
        ELSE IF length < 0
        THEN IF idx + length >= 0 THEN Err("panic") ELSE Err("UnexpectedEof")
        ELSE IF length > Len(data) - idx THEN Err("UnexpectedEof")
        ELSE LET decoded == from_utf8(SubSeq(data, idx + 1, idx + length))
             IN  [result |-> "Ok",
                  string |-> IF decoded.ok THEN decoded.string ELSE <<65533>>,
                  index |-> idx + length]

\* read_string(data, &mut index) on a 64-bit target.  `length` is the
\* VarInt `as usize`: a negative i32 sign-extends to 2^64 + value, so
\* `*index + length` overflows exactly when index + value >= 0.  With
\* overflow checks (the dev profile) that addition panics; without (the
\* release profile) it wraps to index + value < index, the bounds test
\* passes and the slice data[index..index + value] panics: a panic in
\* either profile.
\* result is "Ok", "UnexpectedEof", "InvalidData" or "panic".
read_string(data, index) ==
    LET r == read_var_int(data, index)
        length == r.value
        idx == r.offset
        Err(kind) == [result |-> kind, string |-> <<>>, index |-> idx]
    IN  IF r.panicked THEN Err("panic")
        ELSE IF length < 0
        THEN IF idx + length >= 0 THEN Err("panic") ELSE Err("UnexpectedEof")
        ELSE IF length > Len(data) - idx THEN Err("UnexpectedEof")
        ELSE LET str_bytes == SubSeq(data, idx + 1, idx + length)
                 decoded == from_utf8(str_bytes)
             IN  IF decoded.ok
                 THEN [result |-> "Ok", string |-> decoded.string, index |-> idx + length]
                 ELSE [result |-> "InvalidData", string |-> <<>>, index |-> idx + length]

(***************************************************************************)
(* ping.rs: the status payload                                             *)
(***************************************************************************)
\* serde_json::Value
JNull == [t |-> "Null"]
JBool(b) == [t |-> "Bool", b |-> b]
JNumber(n) == [t |-> "Number", n |-> n]
JString(s) == [t |-> "String", s |-> s]
JArray(a) == [t |-> "Array", a |-> a]
JObject(m) == [t |-> "Object", m |-> m]

\* Option<T>
None == [some |-> FALSE]
Some(x) == [some |-> TRUE, v |-> x]

RECURSIVE extract_text(_)
RECURSIVE CollectTexts(_, _)

\* arr.iter().map(extract_text).collect(), from element i on
CollectTexts(arr, i) ==
    IF i > Len(arr) THEN <<>>
    ELSE extract_text(arr[i]) \o CollectTexts(arr, i + 1)

\* an extract_text that puts an object's "extra" before its "text"
extract_text_extra_first(value) ==
    CASE value.t = "String" -> value.s
      [] value.t = "Array" -> CollectTexts(value.a, 1)
      [] value.t = "Object" ->
            LET extra == IF "extra" \in DOMAIN value.m
                         THEN extract_text(value.m["extra"]) ELSE <<>>
            IN  IF "text" \in DOMAIN value.m
                THEN extra \o extract_text(value.m["text"]) ELSE extra
      [] OTHER -> <<>>

extract_text(value) ==
    CASE value.t = "String" -> value.s
      [] value.t = "Array" -> CollectTexts(value.a, 1)
      [] value.t = "Object" ->
            LET text == IF "text" \in DOMAIN value.m
                        THEN extract_text(value.m["text"]) ELSE <<>>
            IN  IF "extra" \in DOMAIN value.m
                THEN text \o extract_text(value.m["extra"]) ELSE text
      [] OTHER -> <<>>

\* The status payloads a peer sends in this model: the JSON text, and for
\* the documents of the ServerStatus shape the value serde_json::from_str
\* gives (`description` is #[serde(skip)]: it is left at its default, the
\* payload's "description" key goes to raw_description).
\* {"version":{"name":"1.21","protocol":770},"players":{"max":20,"online":3},"description":"hello"}
DocPlainText ==
    <<123, 34, 118, 101, 114, 115, 105, 111, 110, 34, 58, 123, 34, 110, 97,
    109, 101, 34, 58, 34, 49, 46, 50, 49, 34, 44, 34, 112, 114, 111, 116,
    111, 99, 111, 108, 34, 58, 55, 55, 48, 125, 44, 34, 112, 108, 97, 121,
    101, 114, 115, 34, 58, 123, 34, 109, 97, 120, 34, 58, 50, 48, 44, 34,
    111, 110, 108, 105, 110, 101, 34, 58, 51, 125, 44, 34, 100, 101, 115, 99,
    114, 105, 112, 116, 105, 111, 110, 34, 58, 34, 104, 101, 108, 108, 111,
    34, 125>>

DocPlain ==
    [version |-> [name |-> <<49, 46, 50, 49>>, protocol |-> 770],
     players |-> [max |-> 20, online |-> 3,
                  sample |-> None],
     raw_description |->
        JString(<<104, 101, 108, 108, 111>>),
     description |-> <<>>,
     favicon |-> None]

\* {"version":{"name":"1.21","protocol":770},"players":{"max":20,"online":0,"sample":[{"name":"kybe","id":"u"}]},"description":{"text":"A","extra":[{"text":"B"},{"text":"C","extra":[{"text":"D"}]}]},"favicon":"f"}
DocRichText ==
    <<123, 34, 118, 101, 114, 115, 105, 111, 110, 34, 58, 123, 34, 110, 97,
    109, 101, 34, 58, 34, 49, 46, 50, 49, 34, 44, 34, 112, 114, 111, 116,
    111, 99, 111, 108, 34, 58, 55, 55, 48, 125, 44, 34, 112, 108, 97, 121,
    101, 114, 115, 34, 58, 123, 34, 109, 97, 120, 34, 58, 50, 48, 44, 34,
    111, 110, 108, 105, 110, 101, 34, 58, 48, 44, 34, 115, 97, 109, 112, 108,
    101, 34, 58, 91, 123, 34, 110, 97, 109, 101, 34, 58, 34, 107, 121, 98,
    101, 34, 44, 34, 105, 100, 34, 58, 34, 117, 34, 125, 93, 125, 44, 34,
    100, 101, 115, 99, 114, 105, 112, 116, 105, 111, 110, 34, 58, 123, 34,
    116, 101, 120, 116, 34, 58, 34, 65, 34, 44, 34, 101, 120, 116, 114, 97,
    34, 58, 91, 123, 34, 116, 101, 120, 116, 34, 58, 34, 66, 34, 125, 44,
    123, 34, 116, 101, 120, 116, 34, 58, 34, 67, 34, 44, 34, 101, 120, 116,
    114, 97, 34, 58, 91, 123, 34, 116, 101, 120, 116, 34, 58, 34, 68, 34,
    125, 93, 125, 93, 125, 44, 34, 102, 97, 118, 105, 99, 111, 110, 34, 58,
    34, 102, 34, 125>>

DocRich ==
    [version |-> [name |-> <<49, 46, 50, 49>>, protocol |-> 770],
     players |-> [max |-> 20, online |-> 0,
                  sample |-> Some(<<[name |-> <<107, 121, 98, 101>>, id |-> <<117>>]>>)],
     raw_description |->
        JObject([text |-> JString(<<65>>), extra |-> JArray(<<JObject([text |-> JString(<<66>>)]), JObject([text |-> JString(<<67>>), extra |-> JArray(<<JObject([text |-> JString(<<68>>)])>>)])>>)]),
     description |-> <<>>,
     favicon |-> Some(<<102>>)]

\* {"version":{"name":"","protocol":0},"players":{"max":0,"online":0},"description":{}}
DocEmptyObjectText ==
    <<123, 34, 118, 101, 114, 115, 105, 111, 110, 34, 58, 123, 34, 110, 97,
    109, 101, 34, 58, 34, 34, 44, 34, 112, 114, 111, 116, 111, 99, 111, 108,
    34, 58, 48, 125, 44, 34, 112, 108, 97, 121, 101, 114, 115, 34, 58, 123,
    34, 109, 97, 120, 34, 58, 48, 44, 34, 111, 110, 108, 105, 110, 101, 34,
    58, 48, 125, 44, 34, 100, 101, 115, 99, 114, 105, 112, 116, 105, 111,
    110, 34, 58, 123, 125, 125>>

DocEmptyObject ==
    [version |-> [name |-> <<>>, protocol |-> 0],
     players |-> [max |-> 0, online |-> 0,
                  sample |-> None],
     raw_description |->
        JObject(<<>>),
     description |-> <<>>,
     favicon |-> None]

\* {"version":{"name":"","protocol":0},"players":{"max":0,"online":0},"description":["x",1,null,{"text":"y","bold":true}]}
DocMixedArrayText ==
    <<123, 34, 118, 101, 114, 115, 105, 111, 110, 34, 58, 123, 34, 110, 97,
    109, 101, 34, 58, 34, 34, 44, 34, 112, 114, 111, 116, 111, 99, 111, 108,
    34, 58, 48, 125, 44, 34, 112, 108, 97, 121, 101, 114, 115, 34, 58, 123,
    34, 109, 97, 120, 34, 58, 48, 44, 34, 111, 110, 108, 105, 110, 101, 34,
    58, 48, 125, 44, 34, 100, 101, 115, 99, 114, 105, 112, 116, 105, 111,
    110, 34, 58, 91, 34, 120, 34, 44, 49, 44, 110, 117, 108, 108, 44, 123,
    34, 116, 101, 120, 116, 34, 58, 34, 121, 34, 44, 34, 98, 111, 108, 100,
    34, 58, 116, 114, 117, 101, 125, 93, 125>>

DocMixedArray ==
    [version |-> [name |-> <<>>, protocol |-> 0],
     players |-> [max |-> 0, online |-> 0,
                  sample |-> None],
     raw_description |->
        JArray(<<JString(<<120>>), JNumber(1), JNull, JObject([text |-> JString(<<121>>), bold |-> JBool(TRUE)])>>),
     description |-> <<>>,
     favicon |-> None]

\* {"version":{"name":"","protocol":0},"players":{"max":0,"online":0},"description":5}
DocNumberText ==
    <<123, 34, 118, 101, 114, 115, 105, 111, 110, 34, 58, 123, 34, 110, 97,
    109, 101, 34, 58, 34, 34, 44, 34, 112, 114, 111, 116, 111, 99, 111, 108,
    34, 58, 48, 125, 44, 34, 112, 108, 97, 121, 101, 114, 115, 34, 58, 123,
    34, 109, 97, 120, 34, 58, 48, 44, 34, 111, 110, 108, 105, 110, 101, 34,
    58, 48, 125, 44, 34, 100, 101, 115, 99, 114, 105, 112, 116, 105, 111,
    110, 34, 58, 53, 125>>

DocNumber ==
    [version |-> [name |-> <<>>, protocol |-> 0],
     players |-> [max |-> 0, online |-> 0,
                  sample |-> None],
     raw_description |->
        JNumber(5),
     description |-> <<>>,
     favicon |-> None]

\* {}
DocNoFieldsText == <<123, 125>>

\* pong
DocNotJsonText == <<112, 111, 110, 103>>

StatusDocs ==
    {[text |-> DocPlainText, status |-> DocPlain],
     [text |-> DocRichText, status |-> DocRich],
     [text |-> DocEmptyObjectText, status |-> DocEmptyObject],
     [text |-> DocMixedArrayText, status |-> DocMixedArray],
     [text |-> DocNumberText, status |-> DocNumber]}

\* the payload texts peers send; those not in StatusDocs are no ServerStatus
PayloadTexts ==
    {d.text : d \in StatusDocs} \cup {DocNoFieldsText, DocNotJsonText, <<>>}

\* serde_json::from_str::<ServerStatus>(json), on the texts of PayloadTexts
serde_json_from_str(json) ==
    IF \E d \in StatusDocs : d.text = json
    THEN [ok |-> TRUE, status |-> (CHOOSE d \in StatusDocs : d.text = json).status]
    ELSE [ok |-> FALSE]

(***************************************************************************)
(* ping.rs: packets                                                        *)
(***************************************************************************)
HANDSHAKE_ID == 0
STATUS_REQUEST_ID == 0
NEXT_STATE_STATUS == 1

\* write_u16(buf, value): the value's two bytes, big-endian
write_u16(buf, value) == buf \o <<value \div 256, value % 256>>

\* a packet() whose length prefix leaves the packet id out
packet_length_of_body(id, write) ==
    IF write.panicked THEN [bytes |-> <<>>, panicked |-> TRUE]
    ELSE [bytes |-> write_var_int(<<>>, Len(write.buffer))
                        \o write_var_int(<<>>, id) \o write.buffer,
          panicked |-> FALSE]

\* The closure handed to packet() only appends to the buffer it is given,
\* so it is modelled by what it appends: [buffer, panicked].
\* packet(id, write): the packet's bytes, or the closure's panic.
packet(id, write) ==
    IF write.panicked THEN [bytes |-> <<>>, panicked |-> TRUE]
    ELSE LET payload == write_var_int(<<>>, id) \o write.buffer
         IN  [bytes |-> write_var_int(<<>>, Len(payload)) \o payload,
              panicked |-> FALSE]

\* the closure of handshake_packet
HandshakeFields(version, address, port) ==
    LET w == write_string(write_var_int(<<>>, version), address)
    IN  IF w.panicked THEN w
        ELSE [buffer |-> write_var_int(write_u16(w.buffer, port), NEXT_STATE_STATUS),
              panicked |-> FALSE]

handshake_packet(version, address, port) ==
    packet(HANDSHAKE_ID, HandshakeFields(version, address, port))

status_request_packet ==
    packet(STATUS_REQUEST_ID, [buffer |-> <<>>, panicked |-> FALSE])

(***************************************************************************)
(* varint.rs: read_var_int_from_stream                                     *)
(***************************************************************************)
\* The loop of read_var_int_from_stream over `bytes`, the bytes the stream
\* still delivers.  num_read is an i32 and `7 * num_read` the shift of a
\* u32: from the sixth byte on the shift is >= 32, which panics with
\* overflow checks ("attempt to shift left with overflow", the dev profile)
\* and is taken modulo 32 without them (the release profile).
\* result "end": read_u8 found no byte left (EOF, or it awaits for ever).
RECURSIVE StreamVarLoop(_, _, _, _, _)
StreamVarLoop(bytes, pos, value, num_read, overflow_checks) ==
    IF pos >= Len(bytes) THEN [result |-> "end", value |-> 0, consumed |-> pos]
    ELSE LET byte == bytes[pos + 1]
             shift == 7 * num_read
         IN  IF shift >= 32 /\ overflow_checks
             THEN [result |-> "panic", value |-> 0, consumed |-> pos + 1]
             ELSE LET v2 == Or(value, Shl(Bits(byte % 128, 32), shift % 32))
                  IN  IF byte \div 128 = 0
                      THEN [result |-> "Ok", value |-> BitsToI32(v2), consumed |-> pos + 1]
                      ELSE StreamVarLoop(bytes, pos + 1, v2, num_read + 1, overflow_checks)

read_var_int_from_stream(bytes, overflow_checks) ==
    StreamVarLoop(bytes, 0, Zero(32), 0, overflow_checks)

(***************************************************************************)
(* The codec harness: Init draws an input, the actions apply the codec     *)
(* functions to it the way varint.rs's tests do (encode into an empty      *)
(* Vec, decode from cursor 0).                                             *)
(***************************************************************************)
\* i32 inputs: -MaxSmall..MaxSmall (every one-byte value among them) and
\* the values around every VarInt length boundary, among them the values of
\* test_varint_roundtrip
MaxSmall == 130

I32_MAX == 2147483647
I32_MIN == (-2147483647) - 1

I32Edges ==
    {0, 1, 2, 127, 128, 255, 256, 8191, 8192, 16382, 16383, 16384, 16385,
     25565, 2097151, 2097152,
     268435455, 268435456, I32_MAX, -1, -128, -129, -2097152, I32_MIN + 1, I32_MIN}

\* every value write_var_int encodes in one or two bytes, and the first it
\* encodes in three
ShortVarInts == 0 .. 16384

I32Inputs == (-MaxSmall .. MaxSmall) \cup ShortVarInts \cup I32Edges

\* i64 inputs (bit patterns): the sign-extended i32 edges, every power of
\* two and its complement, i64::MAX and i64::MIN
I64One == I32ToI64(1)
I64_MAX == Shr(Not(Zero(64)), 1)
I64_MIN == Shl(I64One, 63)

I64Inputs ==
    {I32ToI64(v) : v \in I32Edges}
        \cup {Shl(I64One, k) : k \in 0..63}
        \cup {Not(Shl(I64One, k)) : k \in 0..63}
        \cup {I64_MAX, I64_MIN}

\* string inputs: every string of at most MaxChars chars over one char of
\* each UTF-8 width ('a', U+00E9, U+20AC, U+1F600), and long strings at the
\* UTF-16 ceiling
MaxChars == 3

Chars == {97, 233, 8364, 128512}

RECURSIVE StringsUpTo(_)
StringsUpTo(n) ==
    IF n = 0 THEN {<<>>}
    ELSE LET shorter == StringsUpTo(n - 1)
         IN  shorter \cup {Append(s, c) : s \in shorter, c \in Chars}

Repeat(c, n) == [i \in 1..n |-> c]

LongStrings ==
    {Repeat(97, STRING_MAX_UTF16), Repeat(97, STRING_MAX_UTF16 + 1),
     Repeat(128512, (STRING_MAX_UTF16 + 1) \div 2)}

StringInputs == StringsUpTo(MaxChars) \cup LongStrings

\* handshake_packet inputs: protocol versions of 1, 2 and 5 VarInt bytes;
\* every address of at most MaxAddrChars chars, "example.com" and addresses
\* that make the string's and the packet's length prefix two bytes long;
\* ports on both sides of each byte boundary
MaxAddrChars == 2

ExampleCom == <<101, 120, 97, 109, 112, 108, 101, 46, 99, 111, 109>>

HandshakeInputs ==
    [version : {0, 47, 770, -1},
     address : StringsUpTo(MaxAddrChars)
                   \cup {ExampleCom, Repeat(97, 200), Repeat(128512, 70)},
     port : {0, 255, 256, 25565, 65535}]

\* packet() inputs: an id and the bytes its closure appends
PacketInputs ==
    [id : {0, 1, 300, -1},
     body : {<<>>, <<0>>, <<255, 0, 128>>, Repeat(7, 126), Repeat(7, 127),
             Repeat(7, 200)}]

\* decoder inputs: a buffer and a cursor into it.  Every buffer of at most
\* MaxBufLen bytes over ByteSamples, and runs of up to MaxRun bytes with the
\* continuation bit, unterminated or ended by a byte without it
MaxBufLen == 3
MaxRun == 12

ByteSamples == {0, 1, 2, 97, 128, 129, 255}

RECURSIVE BuffersUpTo(_)
BuffersUpTo(n) ==
    IF n = 0 THEN {<<>>}
    ELSE LET shorter == BuffersUpTo(n - 1)
         IN  shorter \cup {Append(b, x) : b \in shorter, x \in ByteSamples}

ContinuationRuns ==
    {Repeat(b, k) \o tail : b \in {128, 255}, k \in 0..MaxRun,
                            tail \in {<<>>, <<0>>, <<1>>, <<127>>}}

\* the buffers: every one of at most MaxBufLen sample bytes, the runs of
\* continuation bytes, and buffers that hold a length prefix and that many
\* bytes: well-formed UTF-8 of every width and ill-formed UTF-8 (a lead
\* byte without its continuation, an over-long form, a surrogate, a
\* sequence cut short, a code point above U+10FFFF)
BufferInputs ==
    [data : BuffersUpTo(MaxBufLen) \cup ContinuationRuns
              \cup {<<2, 195, 169>>, <<3, 226, 130, 172>>, <<4, 240, 159, 152, 128>>,
                    <<5, 97, 195, 169, 0, 98>>,
                    <<2, 195, 40>>, <<1, 195>>, <<2, 192, 128>>, <<3, 237, 160, 128>>,
                    <<3, 240, 159, 152>>, <<4, 244, 144, 128, 128>>},
     index : {0, 1}]

\* extract_text inputs: the scalars; the arrays of at most MaxArrayLen
\* scalars; the objects that give a scalar to any of the keys "text",
\* "extra" and "bold"; and those values nested up to MaxNest times in an
\* array, under "extra" and under "text" and "extra" together.  The set
\* holds the children of each of its values.
MaxArrayLen == 2
MaxNest == 2

JsonScalars ==
    {JString(<<65>>), JString(<<66, 67>>), JNumber(5), JBool(TRUE), JNull}

RECURSIVE JsonArraysUpTo(_)
JsonArraysUpTo(n) ==
    IF n = 0 THEN {<<>>}
    ELSE LET shorter == JsonArraysUpTo(n - 1)
         IN  shorter \cup {Append(a, x) : a \in shorter, x \in JsonScalars}

JsonFlat ==
    JsonScalars
        \cup {JArray(a) : a \in JsonArraysUpTo(MaxArrayLen)}
        \cup UNION {{JObject(m) : m \in [keys -> JsonScalars]} :
                        keys \in SUBSET {"text", "extra", "bold"}}

JsonWrap(v) ==
    {JArray(<<JString(<<65>>), v>>),
     JObject([extra |-> v]),
     JObject([text |-> v, extra |-> JArray(<<JString(<<65>>), v>>), bold |-> JBool(TRUE)])}

RECURSIVE JsonNested(_)
JsonNested(n) ==
    IF n = 0 THEN JsonFlat
    ELSE LET inner == JsonNested(n - 1)
         IN  inner \cup UNION {JsonWrap(v) : v \in inner}

CodecInputs ==
    [kind : {"i32"}, v : I32Inputs]
        \cup [kind : {"json"}, v : JsonNested(MaxNest)]
        \cup [kind : {"buf"}, v : BufferInputs]
        \cup [kind : {"i64"}, v : I64Inputs]
        \cup [kind : {"str"}, v : StringInputs]
        \cup [kind : {"handshake"}, v : HandshakeInputs]
        \cup [kind : {"packet"}, v : PacketInputs]

NoCall == [pc |-> "idle"]
NoEnv == [peer |-> "none"]

\* a working directory in which no command has written yet
NoDisk == [path \in {} |-> <<>>]

\* the Lazy cell before its first dereference
LazyNew == [state |-> "uninit", inits |-> 0]

InitCodec ==
    /\ arg \in CodecInputs
    /\ op = "init"
    /\ buffer = <<>>
    /\ ret = [panicked |-> FALSE]
    /\ call = NoCall
    /\ env = NoEnv
    /\ parked = <<>>
    /\ RESOLVER = LazyNew
    /\ disk = NoDisk
    /\ SAVED_MESSAGES = LazyNew
    /\ tasks = <<>>
    /\ outbox = <<>>

\* encode_varint(value)
EncodeVarInt ==
    /\ op = "init" /\ arg.kind = "i32"
    /\ buffer' = write_var_int(<<>>, arg.v)
    /\ op' = "write_var_int"
    /\ UNCHANGED <<arg, ret, call, env, parked, RESOLVER, disk, SAVED_MESSAGES, tasks, outbox>>

\* decode_varint(&encoded)
DecodeVarInt ==
    /\ op = "write_var_int"
    /\ ret' = read_var_int(buffer, 0)
    /\ op' = "read_var_int"
    /\ UNCHANGED <<arg, buffer, call, env, parked, RESOLVER, disk, SAVED_MESSAGES, tasks, outbox>>

\* encode_varlong(value)
EncodeVarLong ==
    /\ op = "init" /\ arg.kind = "i64"
    /\ buffer' = write_var_long(<<>>, arg.v)
    /\ op' = "write_var_long"
    /\ UNCHANGED <<arg, ret, call, env, parked, RESOLVER, disk, SAVED_MESSAGES, tasks, outbox>>

\* decode_varlong(&encoded)
DecodeVarLong ==
    /\ op = "write_var_long"
    /\ ret' = read_var_int_long(buffer, 0)
    /\ op' = "read_var_int_long"
    /\ UNCHANGED <<arg, buffer, call, env, parked, RESOLVER, disk, SAVED_MESSAGES, tasks, outbox>>

\* write_string(&mut Vec::new(), string)
EncodeString ==
    /\ op = "init" /\ arg.kind = "str"
    /\ LET w == write_string(<<>>, arg.v)
       IN  /\ buffer' = w.buffer
           /\ ret' = [panicked |-> w.panicked]
    /\ op' = "write_string"
    /\ UNCHANGED <<arg, call, env, parked, RESOLVER, disk, SAVED_MESSAGES, tasks, outbox>>

\* read_string(&buffer, &mut 0) on what write_string returned
DecodeString ==
    /\ op = "write_string" /\ ~ret.panicked
    /\ ret' = read_string(buffer, 0)
    /\ op' = "read_string"
    /\ UNCHANGED <<arg, buffer, call, env, parked, RESOLVER, disk, SAVED_MESSAGES, tasks, outbox>>

\* handshake_packet(version, address, port)
BuildHandshake ==
    /\ op = "init" /\ arg.kind = "handshake"
    /\ LET pkt == handshake_packet(arg.v.version, arg.v.address, arg.v.port)
       IN  /\ buffer' = pkt.bytes
           /\ ret' = [panicked |-> pkt.panicked]
    /\ op' = "handshake_packet"
    /\ UNCHANGED <<arg, call, env, parked, RESOLVER, disk, SAVED_MESSAGES, tasks, outbox>>

\* packet(id, |buf| buf.extend(body))
BuildPacket ==
    /\ op = "init" /\ arg.kind = "packet"
    /\ LET pkt == packet(arg.v.id, [buffer |-> arg.v.body, panicked |-> FALSE])
       IN  /\ buffer' = pkt.bytes
           /\ ret' = [panicked |-> pkt.panicked]
    /\ op' = "packet"
    /\ UNCHANGED <<arg, call, env, parked, RESOLVER, disk, SAVED_MESSAGES, tasks, outbox>>

\* read_var_int(&data, Some(&mut index))
ReadVarIntAt ==
    /\ op = "init" /\ arg.kind = "buf"
    /\ ret' = read_var_int(arg.v.data, arg.v.index)
    /\ op' = "decode_var_int"
    /\ UNCHANGED <<arg, buffer, call, env, parked, RESOLVER, disk, SAVED_MESSAGES, tasks, outbox>>

\* read_var_int_long(&data, Some(&mut index))
ReadVarLongAt ==
    /\ op = "init" /\ arg.kind = "buf"
    /\ ret' = read_var_int_long(arg.v.data, arg.v.index)
    /\ op' = "decode_var_long"
    /\ UNCHANGED <<arg, buffer, call, env, parked, RESOLVER, disk, SAVED_MESSAGES, tasks, outbox>>

\* read_string(&data, &mut index)
ReadStringAt ==
    /\ op = "init" /\ arg.kind = "buf"
    /\ ret' = read_string(arg.v.data, arg.v.index)
    /\ op' = "decode_string"
    /\ UNCHANGED <<arg, buffer, call, env, parked, RESOLVER, disk, SAVED_MESSAGES, tasks, outbox>>

\* read_var_int_from_stream(&mut stream) on a stream that delivers the
\* bytes of the buffer from the cursor on and then ends, in either build
\* profile
ReadVarIntFromStream ==
    /\ op = "init" /\ arg.kind = "buf"
    /\ \E overflow_checks \in BOOLEAN :
          ret' = read_var_int_from_stream(
                     SubSeq(arg.v.data, arg.v.index + 1, Len(arg.v.data)),
                     overflow_checks)
    /\ op' = "read_var_int_from_stream"
    /\ UNCHANGED <<arg, buffer, call, env, parked, RESOLVER, disk, SAVED_MESSAGES, tasks, outbox>>

\* write_string(&mut buffer, string) on a buffer that already holds bytes
WriteStringAppending ==
    /\ op = "init" /\ arg.kind = "str"
    /\ \E prior \in {<<0>>, <<255, 1>>} :
          LET w == write_string(prior, arg.v)
          IN  /\ buffer' = w.buffer
              /\ ret' = [panicked |-> w.panicked, prior |-> prior]
    /\ op' = "append_string"
    /\ UNCHANGED <<arg, call, env, parked, RESOLVER, disk, SAVED_MESSAGES, tasks, outbox>>

\* extract_text(&value)
ExtractText ==
    /\ op = "init" /\ arg.kind = "json"
    /\ ret' = [panicked |-> FALSE, text |-> extract_text(arg.v)]
    /\ op' = "extract_text"
    /\ UNCHANGED <<arg, buffer, call, env, parked, RESOLVER, disk, SAVED_MESSAGES, tasks, outbox>>

NextCodec ==
    \/ ExtractText
    \/ ReadVarIntAt
    \/ ReadVarLongAt
    \/ ReadStringAt
    \/ BuildHandshake
    \/ BuildPacket
    \/ EncodeVarInt
    \/ DecodeVarInt
    \/ EncodeVarLong
    \/ DecodeVarLong
    \/ EncodeString
    \/ DecodeString
    \/ ReadVarIntFromStream
    \/ WriteStringAppending

SpecCodec == InitCodec /\ [][NextCodec]_vars

(***************************************************************************)
(* ping.rs: one ping call.  call.pc is the await (or the synchronous       *)
(* stretch of code) the call is at; every action is the code from there to *)
(* the next one.  What the resolver, the network and the peer do is the    *)
(* environment's choice.                                                   *)
(***************************************************************************)
\* hostnames: "a.b", and the IP literals "1.2.3.4" and "::1"
HostDomain == <<97, 46, 98>>
HostIp4 == <<49, 46, 50, 46, 51, 46, 52>>
HostIp6 == <<58, 58, 49>>
\* the target of a.b's SRV record: "mc.a.b"
SrvTarget == <<109, 99, 46, 97, 46, 98>>

Hostnames == {HostDomain, HostIp4, HostIp6}

\* a parse that knows IPv4 only (hostname.parse::<Ipv4Addr>())
IsIpLiteralV4Only(hostname) == hostname = HostIp4

\* hostname.parse::<IpAddr>().is_ok(), on Hostnames
IsIpLiteral(hostname) == hostname \in {HostIp4, HostIp6}

DefaultPorts == {25565, 19132}
ProtocolVersions == {770}

\* what RESOLVER.srv_lookup can return: Err, or Ok with 0, 1 or 2 records
SrvLookups ==
    {[ok |-> FALSE, records |-> <<>>],
     [ok |-> TRUE, records |-> <<>>],
     [ok |-> TRUE, records |-> <<[target |-> SrvTarget, port |-> 25570]>>],
     [ok |-> TRUE, records |-> <<[target |-> SrvTarget, port |-> 25570],
                                 [target |-> HostDomain, port |-> 25571]>>]}

\* what lookup_host and the timed TcpStream::connect can do
ConnectOutcomes ==
    {"lookup_failed", "no_addresses", "connected", "connect_refused", "connect_timeout"}

\* ---- the byte streams a peer answers with
VarInt(v) == write_var_int(<<>>, v)

\* six bytes, the first five with the continuation bit
OverlongVarInt == <<128, 128, 128, 128, 128, 1>>

Body(id_bytes, len_bytes, text) == id_bytes \o len_bytes \o text

Framed(body) == VarInt(Len(body)) \o body

\* the frame a conforming server sends for (packet id, payload text)
GoodFrame(id, text) == Framed(Body(VarInt(id), VarInt(Len(text)), text))

PacketIds == {0, 1, -1}

GoodFrames == {GoodFrame(id, text) : id \in PacketIds, text \in PayloadTexts}

PlainBody == Body(VarInt(0), VarInt(Len(DocPlainText)), DocPlainText)

MalformedFrames ==
    {\* the length prefix: over-long, negative, huge, zero
     OverlongVarInt \o PlainBody,
     VarInt(-1) \o PlainBody,
     VarInt(I32_MAX) \o PlainBody,
     VarInt(0),
     \* the packet id: over-long, cut off by the end of the frame
     Framed(Body(OverlongVarInt, VarInt(Len(DocPlainText)), DocPlainText)),
     Framed(<<128>>),
     \* the string length: negative, over-long, beyond the frame
     Framed(Body(VarInt(0), VarInt(-1), DocPlainText)),
     Framed(Body(VarInt(0), VarInt(I32_MIN), DocPlainText)),
     Framed(Body(VarInt(0), OverlongVarInt, DocPlainText)),
     Framed(Body(VarInt(0), VarInt(Len(DocPlainText) + 1), DocPlainText)),
     \* a payload that is not UTF-8, with packet id 0 and 1
     Framed(Body(VarInt(0), VarInt(1), <<255>>)),
     Framed(Body(VarInt(1), VarInt(1), <<255>>)),
     \* packet id 0 in two bytes
     Framed(Body(<<128, 0>>, VarInt(Len(DocPlainText)), DocPlainText))}

\* a frame cut off: before any byte, inside the length VarInt, inside the body
TruncatedFrames ==
    LET full == GoodFrame(0, DocRichText)
    IN  {SubSeq(full, 1, k) : k \in {0, 1, 2, Len(full) - 1}}

PeerWires == GoodFrames \cup MalformedFrames \cup TruncatedFrames

\* ---- the call
NewCall(hostname, default_port, protocol_version) ==
    [pc |-> "ResolvingHost",
     hostname |-> hostname,
     default_port |-> default_port,
     protocol_version |-> protocol_version,
     srv_queried |-> FALSE,     \* RESOLVER.srv_lookup was called
     srv |-> None,              \* what RESOLVER.srv_lookup returned
     connect_args |-> None,     \* the (host, port) connect() was called with
     connect_outcome |-> "none",    \* what connect()'s awaits did
     peer |-> None,             \* the peer the TcpStream is connected to
     writes |-> <<>>,           \* whether each write_all succeeded
     host |-> <<>>,             \* resolve_host's result
     port |-> 0,
     connected |-> FALSE,       \* the call holds an open TcpStream
     sent |-> <<>>,             \* the bytes written to the stream
     rpos |-> 0,                \* the number of bytes read from the stream
     length |-> 0,              \* read_response's `length`
     buf |-> <<>>,              \* read_response's `buf`
     response |-> None,         \* read_response's Ok value
     cause |-> "none",          \* where the call's error or panic arose
     result |-> [kind |-> "none"]]  \* ping's return value

Fail(c, error, cause) ==
    [c EXCEPT !.pc = "Failed", !.cause = cause,
              !.result = [kind |-> "Err", error |-> error]]

Panic(c, cause) == [c EXCEPT !.pc = "Panicked", !.cause = cause]

InitPing ==
    /\ arg = [kind |-> "none"]
    /\ op = "init"
    /\ buffer = <<>>
    /\ ret = [panicked |-> FALSE]
    /\ call \in {NewCall(h, p, v) : h \in Hostnames, p \in DefaultPorts,
                                    v \in ProtocolVersions}
    /\ env \in [overflow_checks : BOOLEAN, peers : {PeerWires},
                 wire : {<<>>}, closes : {FALSE}]
    /\ parked = <<>>
    /\ RESOLVER = LazyNew
    /\ disk = NoDisk
    /\ SAVED_MESSAGES = LazyNew
    /\ tasks = <<>>
    /\ outbox = <<>>

\* Lazy::force (once_cell): the first dereference runs the initializer,
\* every later one finds the value
LazyForce(cell) ==
    IF cell.state = "uninit"
    THEN [state |-> "ready", inits |-> cell.inits + 1]
    ELSE cell

\* a resolve_host that takes the last SRV record
resolve_host_last_record(hostname, default_port, lookup) ==
    IF IsIpLiteral(hostname)
    THEN [queried |-> FALSE, ok |-> TRUE, host |-> hostname, port |-> default_port]
    ELSE IF lookup.ok
    THEN IF Len(lookup.records) > 0
         THEN [queried |-> TRUE, ok |-> TRUE,
               host |-> lookup.records[Len(lookup.records)].target,
               port |-> lookup.records[Len(lookup.records)].port]
         ELSE [queried |-> TRUE, ok |-> FALSE, error |-> "SrvResolutionFailed"]
    ELSE [queried |-> TRUE, ok |-> TRUE, host |-> hostname, port |-> default_port]

\* a resolve_host that propagates the failure of the SRV lookup
resolve_host_strict(hostname, default_port, lookup) ==
    IF IsIpLiteral(hostname)
    THEN [queried |-> FALSE, ok |-> TRUE, host |-> hostname, port |-> default_port]
    ELSE IF lookup.ok /\ Len(lookup.records) > 0
    THEN [queried |-> TRUE, ok |-> TRUE, host |-> lookup.records[1].target,
          port |-> lookup.records[1].port]
    ELSE [queried |-> TRUE, ok |-> FALSE, error |-> "SrvResolutionFailed"]

\* resolve_host, given what RESOLVER.srv_lookup(srv_name).await returns if
\* it is called (`queried`: it was called)
resolve_host(hostname, default_port, lookup) ==
    IF IsIpLiteral(hostname)
    THEN [queried |-> FALSE, ok |-> TRUE, host |-> hostname, port |-> default_port]
    ELSE IF lookup.ok
    THEN IF Len(lookup.records) > 0
         THEN [queried |-> TRUE, ok |-> TRUE, host |-> lookup.records[1].target,
               port |-> lookup.records[1].port]
         ELSE [queried |-> TRUE, ok |-> FALSE, error |-> "SrvResolutionFailed"]
    ELSE [queried |-> TRUE, ok |-> TRUE, host |-> hostname, port |-> default_port]

\* resolve_host(hostname, default_port).await?
ResolveHost ==
    /\ call.pc = "ResolvingHost"
    /\ \E lookup \in SrvLookups :
          LET r == resolve_host(call.hostname, call.default_port, lookup)
              c == [call EXCEPT !.srv_queried = r.queried,
                                !.srv = IF r.queried THEN Some(lookup) ELSE None]
          IN  /\ call' = IF r.ok
                         THEN [c EXCEPT !.pc = "Connecting", !.host = r.host,
                                        !.port = r.port]
                         ELSE Fail(c, r.error, "srv_no_records")
              /\ RESOLVER' = IF r.queried THEN LazyForce(RESOLVER) ELSE RESOLVER
    /\ UNCHANGED <<arg, op, buffer, ret, env, parked, disk, SAVED_MESSAGES, tasks, outbox>>

\* the PingError connect() maps each failure to
ConnectError(outcome) ==
    CASE outcome = "lookup_failed" -> "HostResolutionFailed"
      [] outcome = "no_addresses" -> "HostResolutionFailed"
      [] outcome = "connect_refused" -> "HostResolutionFailed"
      [] outcome = "connect_timeout" -> "ConnectTimeout"

\* connect(host, port).await?  The peer reached is chosen here: the bytes it
\* will answer with and whether it closes the stream after them.
Connect ==
    /\ call.pc = "Connecting"
    /\ \E outcome \in ConnectOutcomes :
          LET c == [call EXCEPT !.connect_outcome = outcome,
                                !.connect_args = Some([host |-> call.host,
                                                       port |-> call.port])]
          IN  IF outcome = "connected"
              THEN \E wire \in env.peers, closes \in BOOLEAN :
                      /\ call' = [c EXCEPT !.pc = "SendingHandshake", !.connected = TRUE,
                                           !.peer = Some([wire |-> wire, closes |-> closes])]
                      /\ env' = [env EXCEPT !.wire = wire, !.closes = closes]
              ELSE /\ call' = Fail(c, ConnectError(outcome), outcome)
                   /\ UNCHANGED env
    /\ UNCHANGED <<arg, op, buffer, ret, parked, RESOLVER, disk, SAVED_MESSAGES, tasks, outbox>>

\* a ping that names, in the handshake, the host it connected to
SendHandshakeNamingResolvedHost ==
    /\ call.pc = "SendingHandshake"
    /\ LET pkt == handshake_packet(call.protocol_version, call.host, call.port)
       IN  IF pkt.panicked
           THEN call' = Panic(call, "write_string")
           ELSE \E written \in BOOLEAN :
                   LET c == [call EXCEPT !.writes = Append(@, written)]
                   IN  IF written
                       THEN call' = [c EXCEPT !.pc = "SendingStatusRequest",
                                              !.sent = @ \o pkt.bytes]
                       ELSE call' = Fail(c, "HostResolutionFailed", "handshake_write_failed")
    /\ UNCHANGED <<arg, op, buffer, ret, env, parked, RESOLVER, disk, SAVED_MESSAGES, tasks, outbox>>

\* stream.write_all(&handshake_packet(protocol_version, hostname, port)).await?
\* An io::Error becomes a PingError through #[from]: HostResolutionFailed.
SendHandshake ==
    /\ call.pc = "SendingHandshake"
    /\ LET pkt == handshake_packet(call.protocol_version, call.hostname, call.port)
       IN  IF pkt.panicked
           THEN call' = Panic(call, "write_string")
           ELSE \E written \in BOOLEAN :
                   LET c == [call EXCEPT !.writes = Append(@, written)]
                   IN  IF written
                       THEN call' = [c EXCEPT !.pc = "SendingStatusRequest",
                                              !.sent = @ \o pkt.bytes]
                       ELSE call' = Fail(c, "HostResolutionFailed", "handshake_write_failed")
    /\ UNCHANGED <<arg, op, buffer, ret, env, parked, RESOLVER, disk, SAVED_MESSAGES, tasks, outbox>>

\* stream.write_all(&status_request_packet()).await?
SendStatusRequest ==
    /\ call.pc = "SendingStatusRequest"
    /\ \E written \in BOOLEAN :
          LET c == [call EXCEPT !.writes = Append(@, written)]
          IN  IF written
              THEN call' = [c EXCEPT !.pc = "ReadingLength",
                                     !.sent = @ \o status_request_packet.bytes]
              ELSE call' = Fail(c, "HostResolutionFailed", "status_write_failed")
    /\ UNCHANGED <<arg, op, buffer, ret, env, parked, RESOLVER, disk, SAVED_MESSAGES, tasks, outbox>>

\* the bytes of the peer's answer the call has not read yet
Unread == SubSeq(env.wire, call.rpos + 1, Len(env.wire))

\* read_response: read_var_int_from_stream(stream).await?
\* At the end of the bytes read_u8 fails with UnexpectedEof if the peer
\* closed the stream and stays pending otherwise (no step).
ReadLength ==
    /\ call.pc = "ReadingLength"
    /\ LET r == read_var_int_from_stream(Unread, env.overflow_checks)
           c == [call EXCEPT !.rpos = @ + r.consumed]
       IN  CASE r.result = "Ok" -> call' = [c EXCEPT !.pc = "ReadingFrame", !.length = r.value]
             [] r.result = "panic" -> call' = Panic(c, "length_shift_overflow")
             [] r.result = "end" ->
                   /\ env.closes
                   /\ call' = Fail(c, "HostResolutionFailed", "length_eof")
    /\ UNCHANGED <<arg, op, buffer, ret, env, parked, RESOLVER, disk, SAVED_MESSAGES, tasks, outbox>>

\* read_response: let mut buf = vec![0; length as usize];
\*                stream.read_exact(&mut buf).await?
\* A negative length is, as usize, above isize::MAX: vec! panics with
\* "capacity overflow".  read_exact fails with UnexpectedEof if the stream
\* ends before `length` bytes and stays pending if it stays open.
ReadFrame ==
    /\ call.pc = "ReadingFrame"
    /\ IF call.length < 0
       THEN call' = Panic(call, "capacity_overflow")
       ELSE IF call.length <= Len(Unread)
       THEN call' = [call EXCEPT !.pc = "ParsingFrame",
                                 !.buf = SubSeq(Unread, 1, call.length),
                                 !.rpos = @ + call.length]
       ELSE /\ env.closes
            /\ call' = Fail([call EXCEPT !.rpos = Len(env.wire)],
                            "HostResolutionFailed", "frame_eof")
    /\ UNCHANGED <<arg, op, buffer, ret, env, parked, RESOLVER, disk, SAVED_MESSAGES, tasks, outbox>>

\* a validate_packet_id that lets every id through
validate_packet_id_any(id) == TRUE

\* validate_packet_id(id) is Ok
validate_packet_id(id) == id = STATUS_REQUEST_ID

\* read_response from `let mut idx = 0` on, then validate_packet_id:
\* the packet id and the JSON string are decoded from buf.
ParseFrame ==
    /\ call.pc = "ParsingFrame"
    /\ LET id == read_var_int(call.buf, 0)
           json == read_string(call.buf, id.offset)
       IN  IF id.panicked THEN call' = Panic(call, "packet_id_too_big")
           ELSE IF json.result = "panic" THEN call' = Panic(call, "read_string")
           ELSE IF json.result /= "Ok" THEN call' = Fail(call, "Protocol", "read_string")
           ELSE LET c == [call EXCEPT !.response =
                               Some([packet_id |-> id.value, json |-> json.string])]
                IN  IF validate_packet_id(id.value)
                    THEN call' = [c EXCEPT !.pc = "ParsingJSON"]
                    ELSE call' = Fail(c, "Protocol", "packet_id")
    /\ UNCHANGED <<arg, op, buffer, ret, env, parked, RESOLVER, disk, SAVED_MESSAGES, tasks, outbox>>

\* a ping that returns the status as deserialized
FinishStatusAsParsed(status) == status

\* status.description = extract_text(&status.raw_description)
FinishStatus(status) ==
    [status EXCEPT !.description = extract_text(status.raw_description)]

\* let mut status: ServerStatus = serde_json::from_str(&response.json)?;
\* status.description = ...; Ok(status)
ParseJson ==
    /\ call.pc = "ParsingJSON"
    /\ LET parsed == serde_json_from_str(call.response.v.json)
       IN  IF parsed.ok
           THEN call' = [call EXCEPT !.pc = "Done",
                                     !.result = [kind |-> "Ok",
                                                 status |-> FinishStatus(parsed.status)]]
           ELSE call' = Fail(call, "JsonError", "json")
    /\ UNCHANGED <<arg, op, buffer, ret, env, parked, RESOLVER, disk, SAVED_MESSAGES, tasks, outbox>>

NextPing ==
    \/ ResolveHost
    \/ Connect
    \/ SendHandshake
    \/ SendStatusRequest
    \/ ReadLength
    \/ ReadFrame
    \/ ParseFrame
    \/ ParseJson

SpecPing == InitPing /\ [][NextPing]_vars

\* The call has a step to take.  Every stage but the two reads always has
\* one (connect() ends by its timeout if by nothing else); read_u8 and
\* read_exact have one when the stream holds the bytes they wait for or has
\* ended, and stay pending on a stream that is open and silent.
CanStep ==
    \/ call.pc \in {"ResolvingHost", "Connecting", "SendingHandshake",
                    "SendingStatusRequest", "ParsingFrame", "ParsingJSON"}
    \/ /\ call.pc = "ReadingLength"
       /\ \/ env.closes
          \/ read_var_int_from_stream(Unread, env.overflow_checks).result /= "end"
    \/ /\ call.pc = "ReadingFrame"
       /\ env.closes \/ call.length < 0 \/ call.length <= Len(Unread)

(***************************************************************************)
(* Concurrent ping calls.  Every call is a task of its own: `call` and     *)
(* `env` are the task that takes the next step, `parked` the tasks that    *)
(* wait.  The tasks have the process and its RESOLVER in common.           *)
(***************************************************************************)
\* the peers the concurrent calls can reach: a conforming one and one that
\* stops inside the length prefix
ConcurrentPeers ==
    {GoodFrame(0, DocRichText), SubSeq(GoodFrame(0, DocPlainText), 1, 1)}

ConcurrentCalls == {NewCall(h, 25565, 770) : h \in {HostDomain, HostIp4}}

InitConcurrentPings ==
    /\ arg = [kind |-> "none"]
    /\ op = "init"
    /\ buffer = <<>>
    /\ ret = [panicked |-> FALSE]
    /\ \E overflow_checks \in BOOLEAN :
          LET e == [overflow_checks |-> overflow_checks, peers |-> ConcurrentPeers,
                    wire |-> <<>>, closes |-> FALSE]
          IN  /\ env = e
              /\ call \in ConcurrentCalls
              /\ parked \in {<<[call |-> c, env |-> e]>> : c \in ConcurrentCalls}
    /\ RESOLVER = LazyNew
    /\ disk = NoDisk
    /\ SAVED_MESSAGES = LazyNew
    /\ tasks = <<>>
    /\ outbox = <<>>

\* a scheduler that hands the running task's stream to the task it resumes
SwitchTaskSharedStream ==
    /\ \E i \in 1..Len(parked) :
          /\ call' = parked[i].call
          /\ parked' = [parked EXCEPT ![i] = [call |-> call, env |-> parked[i].env]]
    /\ UNCHANGED <<arg, op, buffer, ret, env, RESOLVER, disk, SAVED_MESSAGES, tasks, outbox>>

\* the runtime suspends the running task and resumes a parked one; each
\* task keeps its locals and its TcpStream
SwitchTask ==
    /\ \E i \in 1..Len(parked) :
          /\ call' = parked[i].call
          /\ env' = parked[i].env
          /\ parked' = [parked EXCEPT ![i] = [call |-> call, env |-> env]]
    /\ UNCHANGED <<arg, op, buffer, ret, RESOLVER, disk, SAVED_MESSAGES, tasks, outbox>>

NextConcurrentPings ==
    \/ ResolveHost
    \/ Connect
    \/ SendHandshake
    \/ SendStatusRequest
    \/ ReadLength
    \/ ReadFrame
    \/ ParseFrame
    \/ ParseJson
    \/ SwitchTask

SpecConcurrentPings == InitConcurrentPings /\ [][NextConcurrentPings]_vars

\* What ping returns when nothing else runs, as a function of what the
\* call's environment answered (c.srv, c.connect_outcome, c.writes,
\* c.peer): [pc, result], with pc "Pending" for a call that waits for ever.
PingAlone(c, overflow_checks) ==
    LET Err(error) == [pc |-> "Failed", result |-> [kind |-> "Err", error |-> error]]
        Panicked == [pc |-> "Panicked", result |-> [kind |-> "none"]]
        Pending == [pc |-> "Pending", result |-> [kind |-> "none"]]
        resolved == resolve_host(c.hostname, c.default_port,
                                 IF c.srv.some THEN c.srv.v
                                 ELSE [ok |-> FALSE, records |-> <<>>])
    IN  IF ~resolved.ok THEN Err(resolved.error)
        ELSE IF c.connect_outcome /= "connected" THEN Err(ConnectError(c.connect_outcome))
        ELSE IF handshake_packet(c.protocol_version, c.hostname, resolved.port).panicked
        THEN Panicked
        ELSE IF ~c.writes[1] THEN Err("HostResolutionFailed")
        ELSE IF ~c.writes[2] THEN Err("HostResolutionFailed")
        ELSE LET wire == c.peer.v.wire
                 Eof == IF c.peer.v.closes THEN Err("HostResolutionFailed") ELSE Pending
                 length == read_var_int_from_stream(wire, overflow_checks)
             IN  IF length.result = "panic" THEN Panicked
                 ELSE IF length.result = "end" THEN Eof
                 ELSE IF length.value < 0 THEN Panicked
                 ELSE IF length.value > Len(wire) - length.consumed THEN Eof
                 ELSE LET buf == SubSeq(wire, length.consumed + 1,
                                        length.consumed + length.value)
                          id == read_var_int(buf, 0)
                          json == read_string(buf, id.offset)
                      IN  IF id.panicked \/ json.result = "panic" THEN Panicked
                          ELSE IF json.result /= "Ok" THEN Err("Protocol")
                          ELSE IF ~validate_packet_id(id.value) THEN Err("Protocol")
                          ELSE LET parsed == serde_json_from_str(json.string)
                               IN  IF parsed.ok
                                   THEN [pc |-> "Done",
                                         result |-> [kind |-> "Ok",
                                                     status |-> FinishStatus(parsed.status)]]
                                   ELSE Err("JsonError")

(***************************************************************************)
(* Properties of the codecs                                                *)
(***************************************************************************)
\* C1: VarInt round-trip.  For every i32 v, read_var_int applied to the
\* bytes write_var_int(v) produced returns exactly v (and does not panic).
VarIntRoundTrip ==
    op = "read_var_int" => (~ret.panicked /\ ret.value = arg.v)

\* the round trip of i32::MIN, a negative value with a five-byte encoding
VarIntRoundTripWitness ==
    op = "read_var_int" /\ arg.v = I32_MIN /\ Len(buffer) = 5 /\ ret.value = I32_MIN

\* C2: VarLong round-trip.  For every i64 v, read_var_int_long applied to
\* the bytes write_var_long(v) produced returns exactly v (no panic).
VarLongRoundTrip ==
    op = "read_var_int_long" => (~ret.panicked /\ ret.value = arg.v)

\* the round trip of i64::MIN, whose encoding is ten bytes long
VarLongRoundTripWitness ==
    op = "read_var_int_long" /\ arg.v = I64_MIN /\ Len(buffer) = 10 /\ ret.value = I64_MIN

\* C3: String round-trip.  For every string of UTF-16 length <= 32767
\* (non-ASCII ones included), read_string at cursor 0 of the bytes
\* write_string produced returns the string and leaves the cursor at the
\* end of the buffer.
StringRoundTrip ==
    op = "read_string" =>
        (ret.result = "Ok" /\ ret.string = arg.v /\ ret.index = Len(buffer))

\* C4: write_string on a string of UTF-16 length > 32767 returns an error
\* to its caller; it does not panic.
WriteStringTooLongIsRecoverable ==
    (op = "write_string" /\ Utf16Len(arg.v) > STRING_MAX_UTF16) => ~ret.panicked

(***************************************************************************)
(* Properties of ping                                                      *)
(***************************************************************************)
\* C5: whatever bytes the peer answers with, ping ends in Ok or in a typed
\* PingError: no reachable state of the call is a panic.
PingNeverPanics == call.pc /= "Panicked"

\* The peer's answer is one well-formed frame: a length VarInt of at most
\* five bytes, exactly that many bytes after it, and in them a packet-id
\* VarInt and a string whose length prefix covers the rest of the frame.
WellFormedFrame(wire) ==
    LET len == read_var_int(wire, 0)
        id == read_var_int(wire, len.offset)
        str == read_var_int(wire, id.offset)
    IN  /\ ~len.panicked /\ len.offset <= 5 /\ len.offset < Len(wire)
        /\ len.value = Len(wire) - len.offset
        /\ ~id.panicked /\ id.offset < Len(wire)
        /\ ~str.panicked /\ str.offset <= Len(wire)
        /\ str.value = Len(wire) - str.offset

FramePacketId(wire) == read_var_int(wire, read_var_int(wire, 0).offset).value

\* C6: once the call has read a well-formed frame whose packet id is not 0,
\* it never returns Ok: it is parsing that frame or has failed, and it has
\* failed with PingError::Protocol, whatever the frame's payload is.
NonZeroPacketIdIsProtocolError ==
    (/\ WellFormedFrame(env.wire)
     /\ FramePacketId(env.wire) /= 0
     /\ call.rpos = Len(env.wire))
        => /\ call.pc \in {"ParsingFrame", "Failed"}
           /\ call.result.kind /= "Ok"
           /\ call.pc = "Failed" => call.result.error = "Protocol"

\* packet id 1 in front of a valid status document: Protocol
NonZeroPacketIdWitness ==
    /\ env.wire = GoodFrame(1, DocPlainText)
    /\ call.pc = "Failed"
    /\ call.response = Some([packet_id |-> 1, json |-> DocPlainText])
    /\ call.result = [kind |-> "Err", error |-> "Protocol"]

\* C7: whenever ping returns Ok(status), status.description is
\* extract_text(status.raw_description).
DescriptionIsFlattened ==
    call.result.kind = "Ok" =>
        call.result.status.description
            = extract_text(call.result.status.raw_description)

\* the nested description of DocRich comes back as "ABCD"
DescriptionIsFlattenedWitness ==
    /\ call.pc = "Done"
    /\ call.result.kind = "Ok"
    /\ call.result.status.raw_description = DocRich.raw_description
    /\ call.result.status.description = <<65, 66, 67, 68>>

\* the stage of section 4.8 a program point belongs to
Stage(c) ==
    IF c.pc \in {"ReadingLength", "ReadingFrame", "ParsingFrame"}
    THEN "ReadingResponse" ELSE c.pc

StageOrder ==
    <<"ResolvingHost", "Connecting", "SendingHandshake", "SendingStatusRequest",
      "ReadingResponse", "ParsingJSON", "Done">>

StageIndex(s) == CHOOSE i \in 1..Len(StageOrder) : StageOrder[i] = s

InOrder(s) == \E i \in 1..Len(StageOrder) : StageOrder[i] = s

\* C8: the call changes stage only to the next stage of the order or to
\* the terminal Failed, and in Failed it takes no further step.
StagesInStrictOrder ==
    [][/\ Stage(call)' /= Stage(call) =>
             /\ InOrder(Stage(call))
             /\ \/ Stage(call)' = "Failed"
                \/ /\ InOrder(Stage(call)')
                   /\ StageIndex(Stage(call)') = StageIndex(Stage(call)) + 1
       /\ call.pc = "Failed" => call' = call]_vars

\* C9: a refused connection yields an error that is neither ConnectTimeout
\* nor HostResolutionFailed, a timeout yields ConnectTimeout, and success
\* an open connection.
ConnectOutcomesDistinct ==
    /\ call.cause = "connect_refused" =>
          call.result.error \notin {"ConnectTimeout", "HostResolutionFailed"}
    /\ call.cause = "connect_timeout" => call.result.error = "ConnectTimeout"
    /\ call.pc = "SendingHandshake" => call.connected

\* C10: a truncated response frame and a failed write of the handshake or
\* the status request are reported as PingError::Protocol.
TruncationAndWriteFailureAreProtocol ==
    call.cause \in {"length_eof", "frame_eof", "handshake_write_failed",
                    "status_write_failed"}
        => call.result.error = "Protocol"

\* C15: write_var_int writes exactly one byte for a value in 0..127 (0x00
\* for zero), exactly two for a value in 128..16383 and three for 16384;
\* every byte but the last has the continuation bit 0x80 set and the last
\* has it clear.
VarIntEncodedLength ==
    op = "write_var_int" =>
        LET n == Len(buffer)
        IN  /\ (arg.v >= 0 /\ arg.v <= 127) => n = 1
            /\ (arg.v >= 128 /\ arg.v <= 16383) => n = 2
            /\ arg.v = 16384 => n = 3
            /\ arg.v = 0 => buffer = <<0>>
            /\ n >= 1
            /\ \A i \in 1..(n - 1) : buffer[i] >= 128
            /\ buffer[n] < 128

VarIntEncodedLengthWitness ==
    /\ op = "write_var_int"
    /\ arg.v = 16384
    /\ buffer = <<128, 128, 1>>

\* the number of consecutive bytes with the continuation bit that data
\* holds from cursor index on
RECURSIVE ContinuationRun(_, _)
ContinuationRun(data, index) ==
    IF index < Len(data) /\ data[index + 1] >= 128
    THEN 1 + ContinuationRun(data, index + 1)
    ELSE 0

\* how a buffer-form decoder call ended: it returned an integer or it
\* panicked (the functions return i32 / i64, not a Result)
VarIntOutcome(r) == IF r.panicked THEN "panic" ELSE "value"

\* C16: decoding, from a buffer, a VarInt with more than 5 consecutive
\* continuation bytes (a VarLong with more than 10) ends with the error
\* value VarIntTooLong: it neither returns an integer nor aborts.
OverlongVarIntIsError ==
    /\ (op = "decode_var_int"
            /\ ContinuationRun(arg.v.data, arg.v.index) > 5) =>
          VarIntOutcome(ret) = "VarIntTooLong"
    /\ (op = "decode_var_long"
            /\ ContinuationRun(arg.v.data, arg.v.index) > 10) =>
          VarIntOutcome(ret) = "VarIntTooLong"

\* C17: read_string on a buffer that holds, after the length prefix, fewer
\* bytes than the prefix declares returns UnexpectedEof and no string, not
\* even a partial one.
TruncatedStringIsEof ==
    op = "decode_string" =>
        LET prefix == read_var_int(arg.v.data, arg.v.index)
        IN  (/\ ~prefix.panicked
             /\ prefix.value >= 0
             /\ prefix.value > Len(arg.v.data) - prefix.offset) =>
                /\ ret.result = "UnexpectedEof"
                /\ ret.string = <<>>

TruncatedStringIsEofWitness ==
    /\ op = "decode_string"
    /\ arg.v = [data |-> <<0, 2, 97>>, index |-> 1]
    /\ ret.result = "UnexpectedEof"

(***************************************************************************)
(* Properties of the packets                                               *)
(***************************************************************************)
\* the chars that make up `units` UTF-16 code units, read from data at
\* cursor idx: what write_string's prefix announces
RECURSIVE ReadChars(_, _, _)
ReadChars(data, idx, units) ==
    IF units <= 0 THEN [ok |-> units = 0, string |-> <<>>, index |-> idx]
    ELSE IF idx >= Len(data) THEN [ok |-> FALSE, string |-> <<>>, index |-> idx]
    ELSE LET w == Utf8Width(data[idx + 1])
         IN  IF w = 0 \/ idx + w > Len(data)
             THEN [ok |-> FALSE, string |-> <<>>, index |-> idx]
             ELSE LET c == Utf8Decode(data, idx + 1)
                      rest == ReadChars(data, idx + w,
                                        units - (IF c > 65535 THEN 2 ELSE 1))
                  IN  [ok |-> rest.ok, string |-> <<c>> \o rest.string,
                       index |-> rest.index]

\* a packet's frame: the length prefix, the number of bytes after it, the
\* packet id and the cursor after the id
DecodeFrame(bytes) ==
    LET length == read_var_int(bytes, 0)
        id == read_var_int(bytes, length.offset)
    IN  [ok |-> ~length.panicked /\ ~id.panicked /\ id.offset <= Len(bytes),
         length |-> length.value,
         following |-> Len(bytes) - length.offset,
         id |-> id.value,
         index |-> id.offset]

\* the fields of a handshake packet, decoded in order from its bytes
DecodeHandshake(bytes) ==
    LET frame == DecodeFrame(bytes)
        version == read_var_int(bytes, frame.index)
        units == read_var_int(bytes, version.offset)
        address == ReadChars(bytes, units.offset, units.value)
        at == address.index
        next_state == read_var_int(bytes, at + 2)
    IN  [ok |-> /\ frame.ok /\ ~version.panicked /\ ~units.panicked
                /\ address.ok /\ at + 2 < Len(bytes) /\ ~next_state.panicked,
         version |-> version.value,
         address |-> address.string,
         port |-> IF at + 2 <= Len(bytes)
                  THEN bytes[at + 1] * 256 + bytes[at + 2] ELSE -1,
         next_state |-> next_state.value,
         end |-> next_state.offset]

\* C14: the length prefix of every packet that packet() builds equals the
\* number of bytes after it, and the first of them is the packet id; the
\* bytes of a handshake packet decode, in order and with nothing left
\* over, to id 0, the protocol version, the address as a length-prefixed
\* string, the port as two big-endian bytes and the next state 1.
PacketFraming ==
    /\ (op \in {"packet", "handshake_packet"} /\ ~ret.panicked) =>
          LET frame == DecodeFrame(buffer)
          IN  /\ frame.ok
              /\ frame.length = frame.following
              /\ op = "packet" =>
                    /\ frame.id = arg.v.id
                    /\ SubSeq(buffer, frame.index + 1, Len(buffer)) = arg.v.body
    /\ (op = "handshake_packet" /\ ~ret.panicked) =>
          LET h == DecodeHandshake(buffer)
          IN  /\ h.ok
              /\ DecodeFrame(buffer).id = 0
              /\ h.version = arg.v.version
              /\ h.address = arg.v.address
              /\ h.port = arg.v.port
              /\ h.next_state = 1
              /\ h.end = Len(buffer)
    /\ status_request_packet.bytes = <<1, 0>>

PacketFramingWitness ==
    /\ op = "handshake_packet" /\ ~ret.panicked
    /\ arg.v = [version |-> 770, address |-> ExampleCom, port |-> 25565]
    /\ Len(buffer) = 19 /\ buffer[1] = 18

(***************************************************************************)
(* Properties of extract_text                                              *)
(***************************************************************************)
\* the concatenation of the texts extract_text gives for texts[i..]
RECURSIVE ConcatFrom(_, _)
ConcatFrom(texts, i) ==
    IF i > Len(texts) THEN <<>> ELSE texts[i] \o ConcatFrom(texts, i + 1)

\* C18: extract_text returns a JSON string itself; for an array the
\* concatenation, in order, of what it returns for the elements; for an
\* object what it returns for the "text" member (if there is one) followed
\* by what it returns for the "extra" member (if there is one), whatever
\* other keys the object has; and the empty string for a number, a bool
\* and null.  It returns on every nested value.
RichTextFlattening ==
    op = "extract_text" =>
        LET v == arg.v
        IN  CASE v.t = "String" -> ret.text = v.s
              [] v.t = "Array" ->
                    ret.text = ConcatFrom([i \in 1..Len(v.a) |-> extract_text(v.a[i])], 1)
              [] v.t = "Object" ->
                    ret.text =
                        (IF "text" \in DOMAIN v.m THEN extract_text(v.m["text"]) ELSE <<>>)
                            \o (IF "extra" \in DOMAIN v.m
                                THEN extract_text(v.m["extra"]) ELSE <<>>)
              [] v.t \in {"Number", "Bool", "Null"} -> ret.text = <<>>

RichTextFlatteningWitness ==
    /\ op = "extract_text"
    /\ arg.v = JObject([text |-> JObject([text |-> JString(<<66, 67>>), extra |-> JNull]),
                        extra |-> JArray(<<JString(<<65>>),
                                           JObject([text |-> JString(<<66, 67>>),
                                                    extra |-> JNull])>>),
                        bold |-> JBool(TRUE)])
    /\ ret.text = <<66, 67, 65, 66, 67>>

(***************************************************************************)
(* Properties of resolve_host                                              *)
(***************************************************************************)
\* C11: a hostname that is an IPv4 or IPv6 literal ("1.2.3.4", "::1") is
\* resolved to itself with the caller's default port, and the call never
\* queries SRV records: not at resolution and not at any later stage.
IpLiteralBypassesSrv ==
    call.hostname \in {HostIp4, HostIp6} =>
        /\ ~call.srv_queried
        /\ ~call.srv.some
        /\ RESOLVER.state = "uninit"
        /\ call.pc /= "ResolvingHost" =>
              /\ call.host = call.hostname
              /\ call.port = call.default_port
              /\ call.cause /= "srv_no_records"

IpLiteralBypassesSrvWitness ==
    /\ call.hostname = HostIp6
    /\ call.default_port = 19132
    /\ call.pc = "Done"

\* C12: when the SRV lookup of a non-IP hostname succeeds, resolution gives
\* the first record's target and port (not the default port) if there is a
\* record; with no record the call fails with SrvResolutionFailed and never
\* gets to connect.
SrvSuccessUsesFirstRecord ==
    (call.srv.some /\ call.srv.v.ok) =>
        IF Len(call.srv.v.records) > 0
        THEN /\ call.host = call.srv.v.records[1].target
             /\ call.port = call.srv.v.records[1].port
             /\ call.cause /= "srv_no_records"
             /\ call.pc = "Connecting" \/ call.connect_outcome /= "none"
        ELSE /\ call.pc = "Failed"
             /\ call.result = [kind |-> "Err", error |-> "SrvResolutionFailed"]
             /\ call.connect_outcome = "none"
             /\ ~call.connected

SrvSuccessUsesFirstRecordWitness ==
    /\ call.srv.some /\ call.srv.v.ok
    /\ Len(call.srv.v.records) = 2
    /\ call.port /= call.default_port
    /\ call.pc = "Connecting"

\* C13: when the SRV lookup itself fails, resolution does not fail: it
\* gives the original hostname with the default port and the call goes on
\* to the connect stage.
SrvErrorFallsBack ==
    (call.srv.some /\ ~call.srv.v.ok) =>
        /\ call.host = call.hostname
        /\ call.port = call.default_port
        /\ call.cause /= "srv_no_records"
        /\ call.pc = "Connecting" \/ call.connect_outcome /= "none"

SrvErrorFallsBackWitness ==
    /\ call.srv.some /\ ~call.srv.v.ok
    /\ call.hostname = HostDomain
    /\ call.pc = "Connecting"

(***************************************************************************)
(* Properties of concurrent calls                                          *)
(***************************************************************************)
\* the running task and the parked ones
Tasks == <<[call |-> call, env |-> env]>> \o parked

\* C19: concurrent ping calls have no mutable state in common.  However
\* their steps interleave, a call that has ended has ended the way it ends
\* when it runs alone against its own peer; and RESOLVER, the one object the
\* calls share, is initialised at most once and never changes after that.
ConcurrentPingsAreIndependent ==
    /\ [](/\ \A i \in 1..Len(Tasks) :
                LET c == Tasks[i].call
                IN  c.pc \in {"Done", "Failed", "Panicked"} =>
                        [pc |-> c.pc, result |-> c.result]
                            = PingAlone(c, Tasks[i].env.overflow_checks)
          /\ RESOLVER.inits <= 1
          /\ (\E i \in 1..Len(Tasks) : Tasks[i].call.srv_queried) =>
                RESOLVER.state = "ready")
    /\ [][RESOLVER.state = "ready" => RESOLVER' = RESOLVER]_vars

ConcurrentPingsWitness ==
    /\ call.pc = "Done"
    /\ parked[1].call.pc = "Failed"
    /\ parked[1].call.peer.some
    /\ call.peer.v.wire /= parked[1].call.peer.v.wire
    /\ call.hostname = HostDomain /\ parked[1].call.hostname = HostDomain
    /\ RESOLVER = [state |-> "ready", inits |-> 1]

(***************************************************************************)
(* Properties of the call's termination                                    *)
(***************************************************************************)
\* the peer the call is connected to sends one well-formed frame or closes
\* the stream after what it sends
PeerAnswers ==
    /\ call.peer.some
    /\ call.peer.v.closes \/ WellFormedFrame(call.peer.v.wire)

\* C20: the connect stage always has a way to end, and a call whose
\* peer sends a complete frame or closes the stream stops only in Done or
\* in Failed.
ConnectEndsAndAnsweredCallReturns ==
    /\ call.pc = "Connecting" => ENABLED Connect
    /\ (PeerAnswers /\ ~CanStep) => call.pc \in {"Done", "Failed"}

(***************************************************************************)
(* src/src/commands/reminders.rs: the reminder list kept in a JSON file    *)
(*                                                                         *)
(* Every command invocation and the background loop is a tokio task; a     *)
(* task runs until its next await on the file system or on Discord, where  *)
(* any other task may run.  The file holds the serialized Vec<Reminder>;   *)
(* it is modelled by the vector it deserializes to.                        *)
(***************************************************************************)
REMINDERS_PATH == "reminders.json"

MaxTime == 1          \* the clock runs from 0 to MaxTime seconds
MaxIndex == 2         \* delete_reminder is invoked with an index in 0..MaxIndex

Users == {1, 2}

\* struct Reminder
Reminder(time, message, user_id, direct) ==
    [time |-> time, message |-> message, user_id |-> user_id, direct |-> direct]

\* fs::write(path, data): the file is created or replaced
WriteFile(d, path, data) ==
    [p \in (DOMAIN d) \cup {path} |-> IF p = path THEN data ELSE d[p]]

\* load_reminders(): a missing or unreadable file is the empty list
load_reminders(d) ==
    IF REMINDERS_PATH \in DOMAIN d THEN d[REMINDERS_PATH] ELSE <<>>

\* save_reminders(reminders): the result of fs::write is dropped, so a
\* failed write (ok = FALSE) leaves the file as it was and goes unnoticed
save_reminders(d, reminders, ok) ==
    IF ok THEN WriteFile(d, REMINDERS_PATH, reminders) ELSE d

\* humantime::parse_duration, on the `when` texts the commands are given
parse_duration(when) ==
    CASE when = "0s" -> Some(0)
      [] when = "1s" -> Some(1)
      [] OTHER -> None

\* reminders.iter().enumerate().filter(|(_, r)| r.user_id == user_id):
\* the 0-based positions, in the whole list, of the user's reminders
user_indices(reminders, user_id) ==
    SelectSeq([i \in 1..Len(reminders) |-> i - 1],
              LAMBDA i : reminders[i + 1].user_id = user_id)

\* the lines of the reply of /reminders: "`{i}`: {message} ..." with i the
\* index enumerate() gave the reminder
reminders_reply(reminders, user_id) ==
    LET user_reminders == user_indices(reminders, user_id)
    IN  [k \in 1..Len(user_reminders) |->
            [index |-> user_reminders[k],
             message |-> reminders[user_reminders[k] + 1].message]]

\* Vec::remove(index), index 0-based and in range
VecRemove(v, index) ==
    [k \in 1..(Len(v) - 1) |-> IF k <= index THEN v[k] ELSE v[k + 1]]

\* the locals of one task
Task(fn, user_id, when, what, index) ==
    [fn |-> fn, pc |-> "start", user_id |-> user_id, when |-> when,
     what |-> what, index |-> index,
     loaded |-> <<>>,      \* what load_reminders() returned
     reminders |-> <<>>,   \* the list the task will save
     due |-> <<>>,         \* loop: the due reminders not sent yet
     removed |-> None,     \* delete_reminder: the reminder it removed
     reply |-> None,       \* the answer the command sent to its invoker
     io_failed |-> FALSE,  \* whether a write or a DM of the task has failed
     wake |-> 0]           \* loop: the end of its sleep

\* The loop runs beside two command invocations: any command of user 1,
\* and a /reminder or a /delete_reminder of user 2.  The file is absent or
\* holds reminders of both users, one of them due.
InitReminders ==
    /\ arg = [kind |-> "none"]
    /\ op = "init"
    /\ buffer = <<>>
    /\ ret = [panicked |-> FALSE]
    /\ call = NoCall
    /\ env = [now |-> 0]
    /\ parked = <<>>
    /\ RESOLVER = LazyNew
    /\ LET x == Reminder(0, "x", 2, FALSE)
           y == Reminder(1, "y", 1, FALSE)
           z == Reminder(1, "z", 1, FALSE)
       IN  disk \in {NoDisk, WriteFile(NoDisk, REMINDERS_PATH, <<x, y>>),
                     WriteFile(NoDisk, REMINDERS_PATH, <<x, y, z>>)}
    /\ SAVED_MESSAGES = LazyNew
    /\ tasks \in {<<Task("start_reminder_loop", 0, "", "", 0), c1, c2>> :
                    c1 \in {Task("reminder", 1, w, "a", 0) : w \in {"0s", "1s", "soon"}}
                            \cup {Task("reminders", 1, "", "", 0)}
                            \cup {Task("delete_reminder", 1, "", "", i) : i \in 0..MaxIndex},
                    c2 \in {Task("reminder", 2, "0s", "b", 0),
                            Task("delete_reminder", 2, "", "", 0)}}
    /\ outbox = <<>>

\* reminder(), l.49-60: the duration does not parse
ReminderInvalidTime ==
    \E t \in DOMAIN tasks :
       /\ tasks[t].fn = "reminder" /\ tasks[t].pc = "start"
       /\ ~parse_duration(tasks[t].when).some
       /\ tasks' = [tasks EXCEPT ![t].pc = "done",
                                 ![t].reply = Some("Invalid time format.")]
       /\ UNCHANGED <<arg, op, buffer, ret, call, env, parked, RESOLVER,
                      disk, SAVED_MESSAGES, outbox>>

\* reminder(), l.49-71: build the reminder, load the list, push
ReminderLoad ==
    \E t \in DOMAIN tasks :
       /\ tasks[t].fn = "reminder" /\ tasks[t].pc = "start"
       /\ parse_duration(tasks[t].when).some
       /\ LET duration == parse_duration(tasks[t].when).v
              reminder == Reminder(env.now + duration, tasks[t].what,
                                   tasks[t].user_id, FALSE)
              reminders == load_reminders(disk)
          IN  tasks' = [tasks EXCEPT ![t].pc = "saving",
                                     ![t].loaded = reminders,
                                     ![t].reminders = Append(reminders, reminder)]
       /\ UNCHANGED <<arg, op, buffer, ret, call, env, parked, RESOLVER,
                      disk, SAVED_MESSAGES, outbox>>

\* reminder(), l.72-84: save the list, then answer "Reminder set ..."
ReminderSave ==
    \E t \in DOMAIN tasks, ok \in BOOLEAN :
       /\ tasks[t].fn = "reminder" /\ tasks[t].pc = "saving"
       /\ disk' = save_reminders(disk, tasks[t].reminders, ok)
       /\ tasks' = [tasks EXCEPT ![t].pc = "done",
                                 ![t].io_failed = @ \/ ~ok,
                                 ![t].reply = Some("Reminder set")]
       /\ UNCHANGED <<arg, op, buffer, ret, call, env, parked, RESOLVER,
                      SAVED_MESSAGES, outbox>>

\* reminders(), the whole command
Reminders ==
    \E t \in DOMAIN tasks :
       /\ tasks[t].fn = "reminders" /\ tasks[t].pc = "start"
       /\ LET reminders == load_reminders(disk)
              reply == reminders_reply(reminders, tasks[t].user_id)
          IN  tasks' = [tasks EXCEPT
                 ![t].pc = "done", ![t].loaded = reminders,
                 ![t].reply = Some(IF reply = <<>> THEN <<"You have no reminders.">>
                                   ELSE <<"Your reminders:", reply>>)]
       /\ UNCHANGED <<arg, op, buffer, ret, call, env, parked, RESOLVER,
                      disk, SAVED_MESSAGES, outbox>>

\* delete_reminder(), l.140-163: load, find the user's reminders, remove
DeleteReminderLoad ==
    \E t \in DOMAIN tasks :
       /\ tasks[t].fn = "delete_reminder" /\ tasks[t].pc = "start"
       /\ LET reminders == load_reminders(disk)
              indices == user_indices(reminders, tasks[t].user_id)
              index == tasks[t].index
          IN  IF index >= Len(indices)
              THEN tasks' = [tasks EXCEPT
                      ![t].pc = "done", ![t].loaded = reminders,
                      ![t].reminders = reminders,
                      ![t].reply = Some("Invalid reminder index.")]
              ELSE LET global_index == indices[index + 1]
                   IN  tasks' = [tasks EXCEPT
                          ![t].pc = "saving", ![t].loaded = reminders,
                          ![t].removed = Some(reminders[global_index + 1]),
                          ![t].reminders = VecRemove(reminders, global_index)]
       /\ UNCHANGED <<arg, op, buffer, ret, call, env, parked, RESOLVER,
                      disk, SAVED_MESSAGES, outbox>>

\* delete_reminder(), l.164-173: save, then answer "Reminder deleted."
DeleteReminderSave ==
    \E t \in DOMAIN tasks, ok \in BOOLEAN :
       /\ tasks[t].fn = "delete_reminder" /\ tasks[t].pc = "saving"
       /\ disk' = save_reminders(disk, tasks[t].reminders, ok)
       /\ tasks' = [tasks EXCEPT ![t].pc = "done", ![t].io_failed = @ \/ ~ok,
                                 ![t].reply = Some("Reminder deleted.")]
       /\ UNCHANGED <<arg, op, buffer, ret, call, env, parked, RESOLVER,
                      SAVED_MESSAGES, outbox>>

\* the loop, l.180-185: load and partition into due and future
LoopLoad ==
    \E t \in DOMAIN tasks :
       /\ tasks[t].fn = "start_reminder_loop"
       /\ tasks[t].pc \in {"start", "sleeping"}
       /\ env.now >= tasks[t].wake
       /\ LET reminders == load_reminders(disk)
              now == env.now
          IN  tasks' = [tasks EXCEPT
                 ![t].pc = "sending",
                 ![t].due = SelectSeq(reminders, LAMBDA r : r.time <= now),
                 ![t].reminders = SelectSeq(reminders, LAMBDA r : ~(r.time <= now))]
       /\ UNCHANGED <<arg, op, buffer, ret, call, env, parked, RESOLVER,
                      disk, SAVED_MESSAGES, outbox>>

\* the loop, l.187-196: one due reminder is sent with
\* user.dm(CreateMessage::default().content(message)); a failure of
\* get_user or of dm is ignored
LoopSend ==
    \E t \in DOMAIN tasks, delivered \in BOOLEAN :
       /\ tasks[t].fn = "start_reminder_loop" /\ tasks[t].pc = "sending"
       /\ tasks[t].due # <<>>
       /\ LET reminder == Head(tasks[t].due)
          IN  outbox' = IF delivered
                        THEN outbox (+) SetToBag({[user_id |-> reminder.user_id,
                                                   content |-> reminder.message]})
                        ELSE outbox
       /\ tasks' = [tasks EXCEPT ![t].due = Tail(@),
                                 ![t].io_failed = @ \/ ~delivered]
       /\ UNCHANGED <<arg, op, buffer, ret, call, env, parked, RESOLVER,
                      disk, SAVED_MESSAGES>>

\* the loop, l.198-201: save the future reminders and sleep for a second
LoopSave ==
    \E t \in DOMAIN tasks, ok \in BOOLEAN :
       /\ tasks[t].fn = "start_reminder_loop" /\ tasks[t].pc = "sending"
       /\ tasks[t].due = <<>>
       /\ disk' = save_reminders(disk, tasks[t].reminders, ok)
       /\ tasks' = [tasks EXCEPT ![t].pc = "sleeping", ![t].io_failed = @ \/ ~ok,
                                 ![t].wake = env.now + 1]
       /\ UNCHANGED <<arg, op, buffer, ret, call, env, parked, RESOLVER,
                      SAVED_MESSAGES, outbox>>

\* a second passes
Tick ==
    /\ "now" \in DOMAIN env
    /\ env.now < MaxTime
    /\ env' = [env EXCEPT !.now = @ + 1]
    /\ UNCHANGED <<arg, op, buffer, ret, call, parked, RESOLVER,
                   disk, SAVED_MESSAGES, tasks, outbox>>

NextReminders ==
    \/ ReminderInvalidTime
    \/ ReminderLoad
    \/ ReminderSave
    \/ Reminders
    \/ DeleteReminderLoad
    \/ DeleteReminderSave
    \/ LoopLoad
    \/ LoopSend
    \/ LoopSave
    \/ Tick

SpecReminders == InitReminders /\ [][NextReminders]_vars

(***************************************************************************)
(* Properties of the reminder commands                                     *)
(***************************************************************************)
\* C21: delete_reminder takes the index /reminders shows: when it is invoked
\* with the index that /reminders prints, for the list it loaded, next to
\* one of the invoking user's reminders, it removes exactly that reminder
\* and saves the list without it.
DeleteReminderTakesPrintedIndex ==
    \A t \in DOMAIN tasks :
       (tasks[t].fn = "delete_reminder" /\ tasks[t].pc # "start") =>
          LET printed == reminders_reply(tasks[t].loaded, tasks[t].user_id)
          IN  \A k \in DOMAIN printed :
                 printed[k].index = tasks[t].index =>
                    /\ tasks[t].removed = Some(tasks[t].loaded[printed[k].index + 1])
                    /\ tasks[t].reminders = VecRemove(tasks[t].loaded, printed[k].index)

(***************************************************************************)
(* Properties of the codec, continued                                      *)
(***************************************************************************)
\* C22: the stream form and the buffer form of VarInt decoding are the same
\* algorithm: on every byte sequence read_var_int_from_stream has the
\* outcome of read_var_int (the same value from the same number of bytes,
\* or the same failure on over-long input), and it reads up to the first
\* byte whose continuation bit is clear and no further.
StreamDecodingEqualsBufferDecoding ==
    op = "read_var_int_from_stream" =>
        LET from_buffer == read_var_int(arg.v.data, arg.v.index)
            consumed == from_buffer.offset - arg.v.index
        IN  /\ (ret.result = "Ok") = ~from_buffer.panicked
            /\ ret.result = "Ok" =>
                  /\ ret.value = from_buffer.value
                  /\ ret.consumed = consumed
                  /\ ret.consumed = ContinuationRun(arg.v.data, arg.v.index) + 1
            /\ from_buffer.panicked =>
                  /\ ret.result = "panic"
                  /\ ret.consumed = consumed

\* C23: a write_string that returns has appended, to the bytes the buffer
\* held, which it leaves as they were, the VarInt of the string's UTF-16
\* code-unit count (1 for a char up to U+FFFF, 2 for one above: neither the
\* byte count nor the char count) and then exactly the string's UTF-8 bytes.
WriteStringFormat ==
    op = "append_string" =>
        LET prior == ret.prior
            string == arg.v
            units == Len(string)
                       + Cardinality({i \in 1..Len(string) : string[i] >= 65536})
            prefix == read_var_int(buffer, Len(prior))
            bytes == SubSeq(buffer, prefix.offset + 1, Len(buffer))
        IN  /\ ret.panicked = (units > STRING_MAX_UTF16)
            /\ SubSeq(buffer, 1, Len(prior)) = prior
            /\ ~ret.panicked =>
                  /\ ~prefix.panicked
                  /\ prefix.value = units
                  /\ SubSeq(buffer, Len(prior) + 1, prefix.offset)
                        = write_var_int(<<>>, units)
                  /\ bytes = as_bytes(string)
                  /\ Len(string) <= MaxChars =>
                        from_utf8(bytes) = [ok |-> TRUE, string |-> string]

\* "a😀" (3 UTF-16 units, 2 chars, 5 bytes) appended to a buffer of 2 bytes
WriteStringFormatWitness ==
    /\ op = "append_string"
    /\ arg.v = <<97, 128512>>
    /\ ret = [panicked |-> FALSE, prior |-> <<255, 1>>]
    /\ buffer = <<255, 1, 3, 97, 240, 159, 152, 128>>

\* C24: buffer-form decoding (read_var_int, read_var_int_long) from a cursor
\* inside the buffer stops at the first byte whose continuation bit is
\* clear and leaves the cursor one past the last byte it consumed; the
\* cursor after a call that returns never exceeds the buffer's length, also
\* when the buffer is empty or ends inside a VarInt.
CursorStaysInBuffer ==
    (op \in {"decode_var_int", "decode_var_long"}
        /\ arg.v.index <= Len(arg.v.data)
        /\ ~ret.panicked) =>
            LET run == ContinuationRun(arg.v.data, arg.v.index)
                complete == arg.v.index + run < Len(arg.v.data)
            IN  /\ ret.offset <= Len(arg.v.data)
                /\ complete => ret.offset = arg.v.index + run + 1

\* C25: read_string on a buffer that holds the bytes its length prefix
\* declares returns InvalidData, and no string, when those bytes are not
\* valid UTF-8; when they are it returns the string they encode and has
\* advanced the cursor by the size of the prefix plus the declared length.
InvalidUtf8IsInvalidData ==
    op = "decode_string" =>
        LET prefix == read_var_int(arg.v.data, arg.v.index)
            prefix_size == ContinuationRun(arg.v.data, arg.v.index) + 1
            declared == SubSeq(arg.v.data, prefix.offset + 1,
                               prefix.offset + prefix.value)
        IN  (/\ ~prefix.panicked
             /\ prefix.value >= 0
             /\ prefix.offset + prefix.value <= Len(arg.v.data)) =>
                IF Utf8Valid(declared)
                THEN /\ ret.result = "Ok"
                     /\ as_bytes(ret.string) = declared
                     /\ ret.index = arg.v.index + prefix_size + prefix.value
                ELSE /\ ret.result = "InvalidData"
                     /\ ret.string = <<>>

\* the two declared bytes C3 28 are present and are not UTF-8
InvalidUtf8IsInvalidDataWitness ==
    /\ op = "decode_string"
    /\ arg.v = [data |-> <<2, 195, 40>>, index |-> 0]
    /\ ret.result = "InvalidData"

\* C27: for every buffer and cursor read_string returns: either Ok with the
\* cursor inside the buffer, or an error.  A length prefix that is negative,
\* or whose sum with the cursor overflows, is answered with an error; no
\* call slices out of bounds, overflows or panics.
ReadStringNeverPanics ==
    op = "decode_string" =>
        LET prefix == read_var_int(arg.v.data, arg.v.index)
        IN  /\ ret.result \in {"Ok", "UnexpectedEof", "InvalidData"}
            /\ ret.result = "Ok" => ret.index <= Len(arg.v.data)
            /\ (~prefix.panicked /\ prefix.value < 0) =>
                  ret.result \in {"UnexpectedEof", "InvalidData"}

(***************************************************************************)
(* Properties of ping, continued                                           *)
(***************************************************************************)
\* C26: the handshake a ping sends names the hostname as the caller gave
\* it, never the SRV target, and the resolved port (the port of the first
\* SRV record when the lookup gave one, the default port otherwise); the
\* TCP connection is made to the resolved host and to that same port.
HandshakeNamesCallerHostname ==
    LET by_srv == call.srv.some /\ call.srv.v.ok /\ Len(call.srv.v.records) > 0
        resolved_host == IF by_srv THEN call.srv.v.records[1].target ELSE call.hostname
        resolved_port == IF by_srv THEN call.srv.v.records[1].port ELSE call.default_port
    IN  /\ call.connect_outcome /= "none" =>
              call.connect_args = Some([host |-> resolved_host, port |-> resolved_port])
        /\ call.sent /= <<>> =>
              LET handshake == DecodeHandshake(call.sent)
              IN  /\ handshake.ok
                  /\ handshake.address = call.hostname
                  /\ handshake.port = resolved_port
                  /\ call.connect_args.some
                  /\ call.connect_args.v.port = handshake.port

\* a.b, whose SRV record points to mc.a.b:25570: connected to mc.a.b, the
\* handshake names a.b and port 25570
HandshakeNamesCallerHostnameWitness ==
    /\ call.hostname = HostDomain
    /\ call.connect_args = Some([host |-> SrvTarget, port |-> 25570])
    /\ call.sent /= <<>>
    /\ DecodeHandshake(call.sent).address = HostDomain
    /\ DecodeHandshake(call.sent).port = 25570
    /\ call.default_port = 25565

(***************************************************************************)
(* Properties of the reminder commands, continued                          *)
(***************************************************************************)
\* C28: no reminder is lost.  Under every interleaving of /reminder and
\* /delete_reminder with the background loop, a reminder that a /reminder
\* command has reported as set is in the stored list until the loop has
\* delivered it or its owner has deleted it.
NoReminderLost ==
    \A t \in DOMAIN tasks :
       (tasks[t].fn = "reminder" /\ tasks[t].reply = Some("Reminder set")) =>
          LET r == tasks[t].reminders[Len(tasks[t].reminders)]
              stored == load_reminders(disk)
          IN  \/ \E i \in DOMAIN stored : stored[i] = r
              \/ [user_id |-> r.user_id, content |-> r.message] \in BagToSet(outbox)
              \/ \E d \in DOMAIN tasks :
                    /\ tasks[d].fn = "delete_reminder"
                    /\ tasks[d].user_id = r.user_id
                    /\ tasks[d].removed = Some(r)

\* C29: each reminder is delivered at most once.  No reminder is sent a
\* second time, and once the loop has finished the pass in which it sent a
\* reminder, that reminder is not in the stored list any more.
DeliveredAtMostOnce ==
    /\ \A dm \in BagToSet(outbox) : CopiesIn(dm, outbox) = 1
    /\ tasks[1].pc # "sending" =>
          LET stored == load_reminders(disk)
          IN  \A i \in DOMAIN stored :
                 [user_id |-> stored[i].user_id, content |-> stored[i].message]
                    \notin BagToSet(outbox)

(***************************************************************************)
(* src/src/commands/alias.rs: the saved messages, kept in memory behind a  *)
(* tokio RwLock and written to a JSON file after every change              *)
(*                                                                         *)
(* UserMessages is a map from user id to a map from alias to SavedMessage; *)
(* the file holds its serialization and is modelled by the map it          *)
(* deserializes to.  SAVED_MESSAGES is [state, value, readers]: the tasks  *)
(* that hold a read guard.  A write guard is taken and dropped within one  *)
(* step, because no await stands between `write().await` and the end of    *)
(* the block that holds it.                                                *)
(***************************************************************************)
SAVE_FILE_PATH == "saved_messages.json"

EmptyMap == [k \in {} |-> k]

\* struct SavedMessage
SavedMessage(title, content, image_url, color) ==
    [title |-> title, content |-> content, image_url |-> image_url, color |-> color]

\* parse_color, on the color texts the commands are given: "F00" is
\* expanded to "FF0000"; "red" has three chars that are not hex digits
parse_color(color_str) ==
    CASE color_str = "F00" -> Some(16711680)
      [] color_str = "#00FF00" -> Some(65280)
      [] OTHER -> None

\* load_messages_from_file(): the store after startup
load_messages_from_file(d) ==
    IF SAVE_FILE_PATH \in DOMAIN d THEN d[SAVE_FILE_PATH] ELSE EmptyMap

\* store.entry(user_id).or_default().insert(alias, message)
MapInsert(store, user_id, alias, message) ==
    LET user_map == IF user_id \in DOMAIN store THEN store[user_id] ELSE EmptyMap
        inserted == [a \in (DOMAIN user_map) \cup {alias} |->
                        IF a = alias THEN message ELSE user_map[a]]
    IN  [u \in (DOMAIN store) \cup {user_id} |->
            IF u = user_id THEN inserted ELSE store[u]]

\* store.get_mut(&user_id).and_then(|m| m.remove(&alias)): what was
\* removed, and the store afterwards
MapRemove(store, user_id, alias) ==
    IF user_id \in DOMAIN store /\ alias \in DOMAIN store[user_id]
    THEN [removed |-> Some(store[user_id][alias]),
          store |-> [u \in DOMAIN store |->
                        IF u = user_id
                        THEN [a \in (DOMAIN store[u]) \ {alias} |-> store[u][a]]
                        ELSE store[u]]]
    ELSE [removed |-> None, store |-> store]

\* a lock that hands out the write guard while read guards are held
WriteGuardDespiteReaders(lock) == TRUE

\* SAVED_MESSAGES.write().await returns: no read guard is held
WriteGuardFree(lock) == lock.readers = {}

\* the locals of one command invocation
AliasTask(fn, user_id, alias, title, color) ==
    [fn |-> fn, pc |-> "start", user_id |-> user_id, alias |-> alias,
     title |-> title, color |-> color,
     json |-> None,        \* save_messages_to_file: the serialized store
     reply |-> None,       \* the answer the command sent to its invoker
     io_failed |-> FALSE]  \* whether its fs::write failed

\* Three commands run: two that are a save_alias (each with its own title,
\* with no, a valid or an invalid color) or a delete_alias of either user,
\* and a delete_alias of user 1, all on the alias "hi".  The file is absent
\* or holds messages of one or of both users, and the store is what
\* load_messages_from_file made of it.
InitAliases ==
    /\ arg = [kind |-> "none"]
    /\ op = "init"
    /\ buffer = <<>>
    /\ ret = [panicked |-> FALSE]
    /\ call = NoCall
    /\ env = NoEnv
    /\ parked = <<>>
    /\ RESOLVER = LazyNew
    /\ LET old == MapInsert(EmptyMap, 1, "hi", SavedMessage("old", "", None, None))
           both == MapInsert(old, 2, "yo", SavedMessage("other", "", None, Some(65280)))
       IN  disk \in {NoDisk, WriteFile(NoDisk, SAVE_FILE_PATH, old),
                     WriteFile(NoDisk, SAVE_FILE_PATH, both)}
    /\ SAVED_MESSAGES = [state |-> "ready", value |-> load_messages_from_file(disk),
                         readers |-> {}]
    /\ \E u1 \in Users, u2 \in Users :
          tasks \in {<<c1, c2, AliasTask("delete_alias", 1, "hi", "", None)>> :
                        c1 \in {AliasTask("save_alias", u1, "hi", "title 1", c) :
                                   c \in {None, Some("F00"), Some("red")}}
                                \cup {AliasTask("delete_alias", u1, "hi", "", None)},
                        c2 \in {AliasTask("save_alias", u2, "hi", "title 2", c) :
                                   c \in {None, Some("F00"), Some("red")}}
                                \cup {AliasTask("delete_alias", u2, "hi", "", None)}}
    /\ outbox = <<>>

\* save_alias, l.80-95: the color does not parse
SaveAliasInvalidColor ==
    \E t \in DOMAIN tasks :
       /\ tasks[t].fn = "save_alias" /\ tasks[t].pc = "start"
       /\ tasks[t].color.some /\ ~parse_color(tasks[t].color.v).some
       /\ tasks' = [tasks EXCEPT ![t].pc = "done",
                                 ![t].reply = Some("Invalid color format.")]
       /\ UNCHANGED <<arg, op, buffer, ret, call, env, parked, RESOLVER,
                      disk, SAVED_MESSAGES, outbox>>

\* save_alias, l.80-106: insert under the write guard
SaveAliasInsert ==
    \E t \in DOMAIN tasks :
       /\ tasks[t].fn = "save_alias" /\ tasks[t].pc = "start"
       /\ tasks[t].color.some => parse_color(tasks[t].color.v).some
       /\ WriteGuardFree(SAVED_MESSAGES)
       /\ LET color_int == IF tasks[t].color.some
                           THEN parse_color(tasks[t].color.v) ELSE None
              message == SavedMessage(tasks[t].title, "", None, color_int)
          IN  SAVED_MESSAGES' = [SAVED_MESSAGES EXCEPT
                 !.value = MapInsert(@, tasks[t].user_id, tasks[t].alias, message)]
       /\ tasks' = [tasks EXCEPT ![t].pc = "saving"]
       /\ UNCHANGED <<arg, op, buffer, ret, call, env, parked, RESOLVER,
                      disk, outbox>>

\* delete_alias, l.173-189: remove under the write guard; nothing to remove
\* ends the command
DeleteAliasRemove ==
    \E t \in DOMAIN tasks :
       /\ tasks[t].fn = "delete_alias" /\ tasks[t].pc = "start"
       /\ WriteGuardFree(SAVED_MESSAGES)
       /\ LET r == MapRemove(SAVED_MESSAGES.value, tasks[t].user_id, tasks[t].alias)
          IN  /\ SAVED_MESSAGES' = [SAVED_MESSAGES EXCEPT !.value = r.store]
              /\ tasks' = IF r.removed.some
                          THEN [tasks EXCEPT ![t].pc = "saving"]
                          ELSE [tasks EXCEPT ![t].pc = "done",
                                             ![t].reply = Some("No saved message found.")]
       /\ UNCHANGED <<arg, op, buffer, ret, call, env, parked, RESOLVER,
                      disk, outbox>>

\* save_messages_to_file, l.40-41: take a read guard and serialize
SaveMessagesSerialize ==
    \E t \in DOMAIN tasks :
       /\ tasks[t].fn \in {"save_alias", "delete_alias"} /\ tasks[t].pc = "saving"
       /\ SAVED_MESSAGES' = [SAVED_MESSAGES EXCEPT !.readers = @ \cup {t}]
       /\ tasks' = [tasks EXCEPT ![t].pc = "writing",
                                 ![t].json = Some(SAVED_MESSAGES.value)]
       /\ UNCHANGED <<arg, op, buffer, ret, call, env, parked, RESOLVER,
                      disk, outbox>>

\* save_messages_to_file, l.42-44, and the command's answer: fs::write, the
\* read guard dropped on return
SaveMessagesWrite ==
    \E t \in DOMAIN tasks, ok \in BOOLEAN :
       /\ tasks[t].fn \in {"save_alias", "delete_alias"} /\ tasks[t].pc = "writing"
       /\ disk' = IF ok THEN WriteFile(disk, SAVE_FILE_PATH, tasks[t].json.v) ELSE disk
       /\ SAVED_MESSAGES' = [SAVED_MESSAGES EXCEPT !.readers = @ \ {t}]
       /\ tasks' = [tasks EXCEPT
             ![t].pc = "done", ![t].io_failed = ~ok,
             ![t].reply = Some(IF ~ok THEN "Failed to save"
                               ELSE IF tasks[t].fn = "save_alias" THEN "Saved"
                               ELSE "Deleted")]
       /\ UNCHANGED <<arg, op, buffer, ret, call, env, parked, RESOLVER, outbox>>

NextAliases ==
    \/ SaveAliasInvalidColor
    \/ SaveAliasInsert
    \/ DeleteAliasRemove
    \/ SaveMessagesSerialize
    \/ SaveMessagesWrite

SpecAliases == InitAliases /\ [][NextAliases]_vars

====
